---- MODULE Spec2Model ----
(***************************************************************************)
(* A model of the dom_parser element classification and locator            *)
(* generation engine: ElementClassifier (core/element_classifier.py),      *)
(* CSSSelectorsGenerator (utils/css_selector_generator.py) and             *)
(* XPathGenerator (utils/xpath_generator.py).                              *)
(*                                                                         *)
(* Strings that the code escapes, compares or embeds are sequences of      *)
(* one-character strings, so that escaping and reading back are computed   *)
(* character by character.  Tag names, attribute names and enum values     *)
(* stay atomic strings.                                                    *)
(***************************************************************************)
EXTENDS Integers, Sequences, FiniteSets, TLC

VARIABLES
    source,    \* html_source as parse_page receives it
    errors,    \* the errors list of the analysis result parse_page returns
    tree,      \* the immutable tree snapshot handed to classify_elements
    pc,        \* position of parse_page: "parse", "classify", then "done" (a full
               \* result), "failed" (the error result) or "raised" ("idle": no call)
    cursor,    \* index (document order) of the next node of soup.find_all()
    recs,      \* interactive_elements: the records emitted so far
    run,       \* 1 for the first pass over the snapshot, 2 for the re-run
    prev,      \* outcome and records of the previous pass (kept for the re-run)
    escVal,    \* escaping harness: the attribute or text value
    escCss,    \* escaping harness: the CSS attribute selector built from escVal
    escXp,     \* escaping harness: the XPath predicate literal built from escVal
    analysis_cache,  \* DOMParser._analysis_cache: its entries in insertion order
    last_analysis,   \* DOMParser._last_analysis
    returned,        \* what the most recent parse_page call returned
    calls            \* number of parse_page calls made on the DOMParser

passVars == <<source, errors, tree, pc, cursor, recs, run, prev>>
escVars == <<escVal, escCss, escXp>>
cacheVars == <<analysis_cache, last_analysis, returned, calls>>
vars == <<source, errors, tree, pc, cursor, recs, run, prev, escVal, escCss, escXp,
          analysis_cache, last_analysis, returned, calls>>

(***************************************************************************)
(* Bounds of the model.                                                    *)
(***************************************************************************)
MaxNodes == 3
MaxStrLen == 3

(***************************************************************************)
(* Characters and generic string helpers.                                  *)
(***************************************************************************)
SQ == "'"
DQ == "\""
BS == "\\"
NoStr == <<>>
None == "None"
NoNode == -1
\* no DOMAnalysisResult (None)
NoResult == [url |-> "", serial |-> 0, errors |-> <<>>]
\* DOMParser.__init__: nothing analysed, nothing cached
FreshParser ==
    /\ analysis_cache = <<>>
    /\ last_analysis = NoResult
    /\ returned = NoResult
    /\ calls = 0
Malformed == <<"<malformed>">>
Unset == <<"<unset>">>

LowerLetters == <<"a", "b", "c", "d", "e", "f", "g", "h", "i", "j", "k", "l", "m",
                  "n", "o", "p", "q", "r", "s", "t", "u", "v", "w", "x", "y", "z">>
UpperLetters == <<"A", "B", "C", "D", "E", "F", "G", "H", "I", "J", "K", "L", "M",
                  "N", "O", "P", "Q", "R", "S", "T", "U", "V", "W", "X", "Y", "Z">>
Range(f) == {f[i] : i \in DOMAIN f}
Letters == Range(LowerLetters) \cup Range(UpperLetters)
Digits == {"0", "1", "2", "3", "4", "5", "6", "7", "8", "9"}
HexDigits == Digits \cup {"a", "b", "c", "d", "e", "f", "A", "B", "C", "D", "E", "F"}

Min(a, b) == IF a < b THEN a ELSE b

Has(s, c) == \E i \in 1..Len(s) : s[i] = c

RECURSIVE Flatten(_)
Flatten(ss) == IF ss = <<>> THEN <<>> ELSE Head(ss) \o Flatten(Tail(ss))

RECURSIVE Join(_, _)
Join(ss, sep) ==
    IF ss = <<>> THEN <<>>
    ELSE IF Len(ss) = 1 THEN ss[1]
    ELSE ss[1] \o sep \o Join(Tail(ss), sep)

\* str.replace(c, r) for a one-character pattern c
RECURSIVE ReplaceChar(_, _, _)
ReplaceChar(s, c, r) ==
    IF s = <<>> THEN <<>>
    ELSE (IF Head(s) = c THEN r ELSE <<Head(s)>>) \o ReplaceChar(Tail(s), c, r)

\* str.split(c) for a one-character separator c: always at least one part
RECURSIVE SplitOn(_, _)
SplitOn(s, c) ==
    IF ~Has(s, c) THEN <<s>>
    ELSE LET i == CHOOSE k \in 1..Len(s) :
                      s[k] = c /\ \A j \in 1..(k - 1) : s[j] # c
         IN  <<SubSeq(s, 1, i - 1)>> \o SplitOn(SubSeq(s, i + 1, Len(s)), c)

\* needle in hay (Python substring test)
Contains(hay, needle) ==
    \E i \in 0..(Len(hay) - Len(needle)) :
        SubSeq(hay, i + 1, i + Len(needle)) = needle

StartsWith(s, p) == Len(s) >= Len(p) /\ SubSeq(s, 1, Len(p)) = p

\* all strings over alphabet a of length at most n
RECURSIVE StringsUpTo(_, _)
StringsUpTo(a, n) ==
    IF n = 0 THEN {<<>>}
    ELSE LET shorter == StringsUpTo(a, n - 1)
         IN  shorter \cup {Append(s, c) : s \in shorter, c \in a}

(***************************************************************************)
(* CSSSelectorsGenerator: escaping.                                        *)
(***************************************************************************)
IsCssSafeChar(c) == c \in Letters \cup Digits \cup {"_", "-"}

\* re.sub(r'([^a-zA-Z0-9_-])', r'\\\1', identifier)
RECURSIVE EscapeCssIdentifier(_)
EscapeCssIdentifier(s) ==
    IF s = <<>> THEN <<>>
    ELSE (IF IsCssSafeChar(Head(s)) THEN <<Head(s)>> ELSE <<BS, Head(s)>>)
         \o EscapeCssIdentifier(Tail(s))

\* value.replace('"', '\\"').replace("'", "\\'")
EscapeAttributeValue(value) ==
    ReplaceChar(ReplaceChar(value, DQ, <<BS, DQ>>), SQ, <<BS, SQ>>)

(***************************************************************************)
(* The CSS reader the oracle (soup.select) applies to a selector: what a   *)
(* quoted string and an identifier of the selector text denote.            *)
(***************************************************************************)
CodePoint == "<codepoint>"

\* The value of the quoted string q payload q, or Malformed when payload does
\* not end where the closing quote is (an unescaped q inside, or a trailing
\* backslash that swallows the closing quote).
RECURSIVE CssReadQuoted(_, _)
CssReadQuoted(payload, q) ==
    IF payload = <<>> THEN <<>>
    ELSE IF Head(payload) = q THEN Malformed
    ELSE IF Head(payload) = BS THEN
        IF Len(payload) = 1 THEN Malformed
        ELSE LET rest == CssReadQuoted(SubSeq(payload, 3, Len(payload)), q)
                 c == IF payload[2] \in HexDigits THEN CodePoint ELSE payload[2]
             IN  IF rest = Malformed THEN Malformed ELSE <<c>> \o rest
    ELSE LET rest == CssReadQuoted(Tail(payload), q)
         IN  IF rest = Malformed THEN Malformed ELSE <<Head(payload)>> \o rest

\* The characters an escaped identifier body denotes.
RECURSIVE CssReadIdentBody(_)
CssReadIdentBody(text) ==
    IF text = <<>> THEN <<>>
    ELSE IF Head(text) = BS THEN
        IF Len(text) = 1 THEN Malformed
        ELSE LET rest == CssReadIdentBody(SubSeq(text, 3, Len(text)))
                 c == IF text[2] \in HexDigits THEN CodePoint ELSE text[2]
             IN  IF rest = Malformed THEN Malformed ELSE <<c>> \o rest
    ELSE IF ~IsCssSafeChar(Head(text)) THEN Malformed
    ELSE LET rest == CssReadIdentBody(Tail(text))
         IN  IF rest = Malformed THEN Malformed ELSE <<Head(text)>> \o rest

\* An identifier cannot be empty nor start with a digit.
CssReadIdent(text) ==
    IF text = <<>> \/ Head(text) \in Digits THEN Malformed
    ELSE CssReadIdentBody(text)

(***************************************************************************)
(* XPathGenerator: escaping.                                               *)
(***************************************************************************)
\* escaped_parts of _escape_xpath_string, for parts[i..]
RECURSIVE XPathEscapedParts(_, _)
XPathEscapedParts(parts, i) ==
    IF i > Len(parts) THEN <<>>
    ELSE (IF i > 1 THEN <<(<<DQ, SQ, DQ>>)>> ELSE <<>>)
         \o (IF parts[i] # <<>> THEN <<(<<SQ>> \o parts[i] \o <<SQ>>)>> ELSE <<>>)
         \o XPathEscapedParts(parts, i + 1)

ConcatOpen == <<"c", "o", "n", "c", "a", "t", "(">>

EscapeXPathString(value) ==
    IF ~Has(value, SQ) THEN value
    ELSE IF ~Has(value, DQ) THEN value
    ELSE ConcatOpen \o Join(XPathEscapedParts(SplitOn(value, SQ), 1), <<",", " ">>) \o <<")">>

\* f"...='{self._escape_xpath_string(v)}'": the text after the = sign
XPathEmbed(value) == <<SQ>> \o EscapeXPathString(value) \o <<SQ>>

(***************************************************************************)
(* The XPath reader: the string an expression text denotes.                *)
(***************************************************************************)
IsXPathLiteral(e) ==
    /\ Len(e) >= 2
    /\ e[1] \in {SQ, DQ}
    /\ e[Len(e)] = e[1]
    /\ \A i \in 2..(Len(e) - 1) : e[i] # e[1]

RECURSIVE SkipSpaces(_)
SkipSpaces(e) == IF e # <<>> /\ Head(e) = " " THEN SkipSpaces(Tail(e)) ELSE e

\* The arguments of concat( after the opening parenthesis: literals separated
\* by commas, closed by a parenthesis at the end of the text.
RECURSIVE XPathConcatArgs(_, _)
XPathConcatArgs(e0, n) ==
    LET e == SkipSpaces(e0) IN
    IF e = <<>> \/ Head(e) \notin {SQ, DQ} THEN Malformed
    ELSE LET q == Head(e)
             body == Tail(e)
         IN  IF ~Has(body, q) THEN Malformed
             ELSE LET k == CHOOSE i \in 1..Len(body) :
                               body[i] = q /\ \A j \in 1..(i - 1) : body[j] # q
                      lit == SubSeq(body, 1, k - 1)
                      after == SkipSpaces(SubSeq(body, k + 1, Len(body)))
                  IN  IF after = <<")">> THEN (IF n >= 1 THEN lit ELSE Malformed)
                      ELSE IF after # <<>> /\ Head(after) = "," THEN
                          LET rest == XPathConcatArgs(Tail(after), n + 1)
                          IN  IF rest = Malformed THEN Malformed ELSE lit \o rest
                      ELSE Malformed

XPathStringValue(e) ==
    IF IsXPathLiteral(e) THEN SubSeq(e, 2, Len(e) - 1)
    ELSE IF StartsWith(e, ConcatOpen)
        THEN XPathConcatArgs(SubSeq(e, Len(ConcatOpen) + 1, Len(e)), 0)
    ELSE Malformed

(***************************************************************************)
(* The node tree (a BeautifulSoup snapshot).  Node 0 is the BeautifulSoup  *)
(* object itself, named "[document]", without attributes and without       *)
(* parent; nodes 1..n are the tags in document order.  A tag holds its     *)
(* name, its ordered attribute map (attrs, the class list kept apart in    *)
(* cls) and its own text; its element children follow its text.            *)
(***************************************************************************)
DocumentName == "[document]"
VoidTags == {"input"}

Str_a == <<"a">>
Str_b == <<"b">>
Str_ad == <<"a", "d">>
Str_Send == <<"S", "e", "n", "d">>
Str_Find == <<"F", "i", "n", "d">>
Str_btn == <<"b", "t", "n">>
Str_1a == <<"1", "a">>
Str_quote == <<"O", SQ, "B">>
Str_both == <<SQ, DQ>>
W_checkbox == <<"c", "h", "e", "c", "k", "b", "o", "x">>
W_radio == <<"r", "a", "d", "i", "o">>
W_file == <<"f", "i", "l", "e">>
W_submit == <<"s", "u", "b", "m", "i", "t">>
W_button == <<"b", "u", "t", "t", "o", "n">>
W_text == <<"t", "e", "x", "t">>
W_hidden == <<"h", "i", "d", "d", "e", "n">>
W_true == <<"t", "r", "u", "e">>
W_email == <<"e", "m", "a", "i", "l">>
W_password == <<"p", "a", "s", "s", "w", "o", "r", "d">>
W_tel == <<"t", "e", "l">>
W_url == <<"u", "r", "l">>
W_search == <<"s", "e", "a", "r", "c", "h">>
W_number == <<"n", "u", "m", "b", "e", "r">>
W_range == <<"r", "a", "n", "g", "e">>
W_date == <<"d", "a", "t", "e">>
W_time == <<"t", "i", "m", "e">>
W_datetime_local == <<"d", "a", "t", "e", "t", "i", "m", "e", "-", "l", "o", "c", "a", "l">>
W_month == <<"m", "o", "n", "t", "h">>
W_week == <<"w", "e", "e", "k">>
W_color == <<"c", "o", "l", "o", "r">>
W_reset == <<"r", "e", "s", "e", "t">>
W_Submit == <<"S", "u", "b", "m", "i", "t">>
W_image == <<"i", "m", "a", "g", "e">>
W_Checkbox == <<"C", "h", "e", "c", "k", "b", "o", "x">>
W_RADIO == <<"R", "A", "D", "I", "O">>

Tag(name, attrs, cls, text) ==
    [tag |-> name, attrs |-> attrs, cls |-> cls, text |-> text]

\* The tags a snapshot is built from.
NodeTemplates == {
    Tag("button", <<(<<"id", Str_a>>)>>, <<>>, Str_Find),
    Tag("input", <<(<<"type", W_radio>>), (<<"name", Str_b>>)>>, <<>>, <<>>),
    Tag("a", <<(<<"href", Str_b>>), (<<"data-testid", Str_both>>)>>, <<>>, Str_ad),
    Tag("a", <<>>, <<>>, Str_Send),
    Tag("div", <<>>, <<>>, <<>>),
    Tag("div", <<>>, <<Str_btn>>, <<>>),
    Tag("span", <<(<<"id", Str_1a>>), (<<"name", Str_quote>>),
                  (<<"onclick", Str_a>>)>>, <<>>, Str_b),
    Tag("div", <<(<<"role", W_button>>)>>, <<Str_1a>>, <<>>),
    Tag("input", <<(<<"type", W_hidden>>), (<<"name", Str_b>>)>>, <<>>, <<>>)
}

\* parent[k] is 0 or a node on the path from node k-1 to the root (document
\* order is a preorder), and a void tag has no children.
RECURSIVE IsAncestorOrSelf(_, _, _)
IsAncestorOrSelf(parent, a, k) ==
    IF k = a THEN TRUE
    ELSE IF k = 0 THEN FALSE
    ELSE IsAncestorOrSelf(parent, a, parent[k])

WellFormedTree(t) ==
    \A k \in 1..Len(t.node) :
        /\ t.parent[k] \in 0..(k - 1)
        /\ k > 1 => IsAncestorOrSelf(t.parent, t.parent[k], k - 1)
        /\ t.parent[k] # 0 => t.node[t.parent[k]].tag \notin VoidTags

TreesOfSize(n) ==
    {t \in [parent : [1..n -> 0..(n - 1)], node : [1..n -> NodeTemplates]] :
        WellFormedTree(t)}

Trees == UNION {TreesOfSize(n) : n \in 1..MaxNodes}

Size(t) == Len(t.node)
NodeIds(t) == 1..Size(t)

\* element.name
Name(t, n) == IF n = 0 THEN DocumentName ELSE t.node[n].tag
\* element.attrs without the class entry
Attrs(t, n) == IF n = 0 THEN <<>> ELSE t.node[n].attrs
\* element.get('class', [])
Classes(t, n) == IF n = 0 THEN <<>> ELSE t.node[n].cls
\* element.parent (None for the BeautifulSoup object)
Parent(t, n) == IF n = 0 THEN NoNode ELSE t.parent[n]

\* attr_name in element.attrs
HasAttr(t, n, name) ==
    \E i \in 1..Len(Attrs(t, n)) : Attrs(t, n)[i][1] = name
\* element.get(name, default)
GetOr(t, n, name, default) ==
    IF HasAttr(t, n, name)
    THEN LET i == CHOOSE k \in 1..Len(Attrs(t, n)) : Attrs(t, n)[k][1] = name
         IN  Attrs(t, n)[i][2]
    ELSE default
\* element.get(name): the empty string stands for None (both are falsy)
Get(t, n, name) == GetOr(t, n, name, NoStr)

\* the tags below node p, in document order (p.find_all())
Descendants(t, p) ==
    SelectSeq([i \in 1..Size(t) |-> i],
              LAMBDA k : k # p /\ IsAncestorOrSelf(t.parent, p, k))
\* the element children of node p, in order
Children(t, p) ==
    SelectSeq([i \in 1..Size(t) |-> i], LAMBDA k : t.parent[k] = p)

\* Tag.__eq__: same name, same attributes, same contents (not identity)
RECURSIVE StructEq(_, _, _)
StructEq(t, m, n) ==
    \/ m = n
    \/ /\ m # 0 /\ n # 0
       /\ t.node[m] = t.node[n]
       /\ Len(Children(t, m)) = Len(Children(t, n))
       /\ \A i \in 1..Len(Children(t, m)) :
              StructEq(t, Children(t, m)[i], Children(t, n)[i])

\* list.index(element): the first entry equal to the element, 0 when absent
IndexOf(t, seq, n) ==
    IF \E i \in 1..Len(seq) : StructEq(t, seq[i], n)
    THEN CHOOSE i \in 1..Len(seq) :
             StructEq(t, seq[i], n) /\ \A j \in 1..(i - 1) : ~StructEq(t, seq[j], n)
    ELSE 0

IsSpace(c) == c = " "
RECURSIVE LStrip(_)
LStrip(s) == IF s # <<>> /\ IsSpace(Head(s)) THEN LStrip(Tail(s)) ELSE s
RECURSIVE RStrip(_)
RStrip(s) ==
    IF s # <<>> /\ IsSpace(s[Len(s)]) THEN RStrip(SubSeq(s, 1, Len(s) - 1)) ELSE s
\* str.strip()
Strip(s) == RStrip(LStrip(s))

\* str.split(): the words between runs of spaces
RECURSIVE SplitWords(_)
SplitWords(s0) ==
    LET s == LStrip(s0) IN
    IF s = <<>> THEN <<>>
    ELSE LET n == IF Has(s, " ")
                  THEN (CHOOSE k \in 1..Len(s) :
                            s[k] = " " /\ \A j \in 1..(k - 1) : s[j] # " ") - 1
                  ELSE Len(s)
         IN  <<SubSeq(s, 1, n)>> \o SplitWords(SubSeq(s, n + 1, Len(s)))

LowerChar(c) ==
    IF c \in Range(UpperLetters)
    THEN LowerLetters[CHOOSE i \in 1..26 : UpperLetters[i] = c]
    ELSE c
\* str.lower()
Lower(s) == [i \in 1..Len(s) |-> LowerChar(s[i])]

\* element.get_text(strip=True): every text of the subtree, stripped, joined
RECURSIVE GetText(_, _)
GetText(t, n) ==
    (IF n = 0 THEN <<>> ELSE Strip(t.node[n].text))
    \o Flatten([i \in 1..Len(Children(t, n)) |-> GetText(t, Children(t, n)[i])])

(***************************************************************************)
(* ElementClassifier: element type, inclusion signals, visibility.         *)
(***************************************************************************)
\* HTML_TAG_TO_ELEMENT_TYPE.get(tag_name, ElementType.UNKNOWN)
TagToElementType(tag) ==
    CASE tag = "button" -> "BUTTON"
      [] tag = "a" -> "LINK"
      [] tag = "input" -> "INPUT"
      [] tag = "textarea" -> "TEXTAREA"
      [] tag = "select" -> "SELECT"
      [] tag = "form" -> "FORM"
      [] tag = "img" -> "IMAGE"
      [] tag = "video" -> "VIDEO"
      [] tag = "audio" -> "AUDIO"
      [] tag = "table" -> "TABLE"
      [] tag \in {"ul", "ol", "li"} -> "LIST"
      [] tag \in {"h1", "h2", "h3", "h4", "h5", "h6"} -> "HEADING"
      [] tag = "p" -> "PARAGRAPH"
      [] tag = "nav" -> "NAVIGATION"
      [] tag = "header" -> "HEADER"
      [] tag = "footer" -> "FOOTER"
      [] tag = "main" -> "MAIN"
      [] tag = "aside" -> "ASIDE"
      [] tag = "section" -> "SECTION"
      [] tag = "article" -> "ARTICLE"
      [] tag = "div" -> "DIV"
      [] tag = "span" -> "SPAN"
      [] OTHER -> "UNKNOWN"

\* get_interactive_element_types()
InteractiveElementTypes ==
    {"BUTTON", "LINK", "INPUT", "TEXTAREA", "SELECT", "CHECKBOX", "RADIO",
     "FILE_INPUT", "SUBMIT", "FORM"}

\* INPUT_TYPE_TO_FORM_FIELD_TYPE.get(input_type)
InputTypeToFormFieldType(input_type) ==
    CASE
         input_type = W_text -> "TEXT"
      [] input_type = W_email -> "EMAIL"
      [] input_type = W_password -> "PASSWORD"
      [] input_type = W_tel -> "PHONE"
      [] input_type = W_url -> "URL"
      [] input_type = W_search -> "SEARCH"
      [] input_type = W_number -> "NUMBER"
      [] input_type = W_range -> "RANGE"
      [] input_type = W_date -> "DATE"
      [] input_type = W_time -> "TIME"
      [] input_type = W_datetime_local -> "DATETIME"
      [] input_type = W_month -> "MONTH"
      [] input_type = W_week -> "WEEK"
      [] input_type = W_radio -> "RADIO"
      [] input_type = W_checkbox -> "CHECKBOX"
      [] input_type = W_file -> "FILE"
      [] input_type = W_color -> "COLOR"
      [] input_type = W_hidden -> "HIDDEN"
      [] input_type = W_submit -> "SUBMIT"
      [] input_type = W_reset -> "RESET"
      [] input_type = W_button -> "BUTTON"
      [] OTHER -> None

\* _get_form_field_type
GetFormFieldType(t, n) ==
    IF Name(t, n) = "input"
    THEN InputTypeToFormFieldType(Lower(GetOr(t, n, "type", W_text)))
    ELSE IF Name(t, n) = "textarea" THEN "TEXTAREA"
    ELSE IF Name(t, n) = "select"
    THEN IF Get(t, n, "multiple") # <<>> THEN "MULTISELECT" ELSE "SELECT"
    ELSE IF Name(t, n) = "button" THEN "BUTTON"
    ELSE None

\* _get_element_type without the .lower() of the type attribute
GetElementTypeCaseSensitive(t, n) ==
    IF Name(t, n) = "input"
    THEN LET input_type == GetOr(t, n, "type", W_text) IN
         IF input_type = W_checkbox THEN "CHECKBOX"
         ELSE IF input_type = W_radio THEN "RADIO"
         ELSE IF input_type = W_file THEN "FILE_INPUT"
         ELSE IF input_type \in {W_submit, W_button} THEN "SUBMIT"
         ELSE "INPUT"
    ELSE TagToElementType(Name(t, n))

\* _get_element_type
GetElementType(t, n) ==
    IF Name(t, n) = "input"
    THEN LET input_type == Lower(GetOr(t, n, "type", W_text)) IN
         IF input_type = W_checkbox THEN "CHECKBOX"
         ELSE IF input_type = W_radio THEN "RADIO"
         ELSE IF input_type = W_file THEN "FILE_INPUT"
         ELSE IF input_type \in {W_submit, W_button} THEN "SUBMIT"
         ELSE "INPUT"
    ELSE TagToElementType(Name(t, n))

\* self.interactive_attributes
InteractiveAttributes ==
    {"onclick", "onmousedown", "onmouseup", "onkeypress", "onkeydown",
     "href", "data-toggle", "data-target", "data-dismiss", "role"}

InteractiveRoles == {<<"b", "u", "t", "t", "o", "n">>, <<"l", "i", "n", "k">>,
    <<"m", "e", "n", "u", "i", "t", "e", "m">>, <<"t", "a", "b">>, <<"o", "p",
    "t", "i", "o", "n">>, <<"c", "h", "e", "c", "k", "b", "o", "x">>, <<"r",
    "a", "d", "i", "o">>}

InteractiveClassPatterns == <<<<"b", "t", "n">>, <<"b", "u", "t", "t", "o",
    "n">>, <<"l", "i", "n", "k">>, <<"c", "l", "i", "c", "k">>, <<"t", "o",
    "g", "g", "l", "e">>, <<"s", "u", "b", "m", "i", "t">>>>

\* _has_interactive_attributes
HasInteractiveAttributes(t, n) ==
    /\ Attrs(t, n) # <<>> \/ Classes(t, n) # <<>>
    /\ \/ \E a \in InteractiveAttributes : HasAttr(t, n, a)
       \/ Lower(Get(t, n, "role")) \in InteractiveRoles
       \/ \E i \in 1..Len(Classes(t, n)) :
              \E j \in 1..Len(InteractiveClassPatterns) :
                  Contains(Lower(Classes(t, n)[i]), InteractiveClassPatterns[j])

DisplayNone == <<"d", "i", "s", "p", "l", "a", "y", ":", "n", "o", "n", "e">>
VisibilityHidden == <<"v", "i", "s", "i", "b", "i", "l", "i", "t", "y", ":",
    "h", "i", "d", "d", "e", "n">>

\* _is_hidden_element
IsHiddenElement(t, n) ==
    \/ HasAttr(t, n, "hidden")
    \/ Get(t, n, "aria-hidden") = W_true
    \/ LET style == ReplaceChar(Lower(Get(t, n, "style")), " ", <<>>)
       IN  Contains(style, DisplayNone) \/ Contains(style, VisibilityHidden)
    \/ Name(t, n) = "input" /\ Get(t, n, "type") = W_hidden

\* _extract_text_content
ExtractTextContent(t, n) == GetText(t, n)

\* [x] if cond else []
When(cond, x) == IF cond THEN <<x>> ELSE <<>>

\* _determine_interaction_types: the list, in the order of its appends
DetermineInteractionTypes(t, n, element_type) ==
    LET typed == Lower(GetOr(t, n, "type", W_text))
        input_type == Lower(Get(t, n, "type"))
    IN  When(element_type \in {"BUTTON", "LINK", "SUBMIT"}, "CLICK")
        \o When(Get(t, n, "onclick") # <<>> \/ Get(t, n, "role") = W_button, "CLICK")
        \o When(/\ element_type \in {"INPUT", "TEXTAREA"}
                /\ typed \notin {W_submit, W_button, W_checkbox, W_radio, W_file},
                "TYPE")
        \o When(element_type = "SELECT", "SELECT")
        \o When(element_type = "SELECT" /\ Get(t, n, "multiple") # <<>>, "MULTI_SELECT")
        \o When(element_type \in {"CHECKBOX", "RADIO"}, "SELECT")
        \o (IF input_type = W_file THEN <<"UPLOAD">>
            ELSE IF input_type = W_range THEN <<"RANGE_SELECT">>
            ELSE IF input_type = W_color THEN <<"COLOR_PICK">>
            ELSE IF input_type \in {W_date, W_datetime_local, W_time}
            THEN <<"DATE_PICK">>
            ELSE <<>>)
        \o When(Get(t, n, "title") # <<>> \/ Name(t, n) \in {"abbr", "acronym"}, "HOVER")
        \o (IF Name(t, n) \in {"input", "textarea", "select", "button"}
            THEN <<"FOCUS", "BLUR">> ELSE <<>>)
        \o When(\/ Name(t, n) = "form"
                \/ Name(t, n) = "input" /\ Get(t, n, "type") = W_submit, "SUBMIT")
        \o When(Name(t, n) = "a" /\ Get(t, n, "href") # <<>>, "NAVIGATE")

\* the inclusion test without its second operand
IsIncludedByTypeOnly(t, n) == GetElementType(t, n) \in InteractiveElementTypes

\* the first test left out: every node is kept
IsIncludedAlways(t, n) == TRUE

\* the first test of _classify_single_element: is the node kept
IsIncluded(t, n) ==
    \/ GetElementType(t, n) \in InteractiveElementTypes
    \/ HasInteractiveAttributes(t, n)

(***************************************************************************)
(* ElementClassifier._generate_element_id                                  *)
(***************************************************************************)
IdMaxLen == 100
IdTextMinLen == 3

TagChars(tag) ==
    CASE tag = "button" -> <<"b", "u", "t", "t", "o", "n">>
      [] tag = "input" -> <<"i", "n", "p", "u", "t">>
      [] tag = "a" -> <<"a">>
      [] tag = "div" -> <<"d", "i", "v">>
      [] tag = "span" -> <<"s", "p", "a", "n">>
      [] OTHER -> <<tag>>

\* str(position) for the positions a bounded tree has
DigitOf == <<"0", "1", "2", "3", "4", "5", "6", "7", "8", "9">>
RECURSIVE Decimal(_)
Decimal(k) == IF k < 10 THEN <<DigitOf[k + 1]>>
              ELSE Decimal(k \div 10) \o <<DigitOf[(k % 10) + 1]>>

IsAlnumOrUnderscore(c) == c \in Letters \cup Digits \cup {"_"}

\* re.sub(r'[^a-zA-Z0-9_]', '', text_part)
CleanForId(s) == SelectSeq(s, IsAlnumOrUnderscore)

IdPrefix == <<"i", "d", "_">>
NamePrefix == <<"n", "a", "m", "e", "_">>

\* position = siblings.index(element): the index, among the tags of that
\* name below the parent, of the first one equal to the element
PositionAmongSameTag(t, n) ==
    LET siblings == SelectSeq(Descendants(t, Parent(t, n)),
                              LAMBDA k : Name(t, k) = Name(t, n))
    IN  IndexOf(t, siblings, n) - 1

ElementIdTextPart(t, n) ==
    LET text == ExtractTextContent(t, n) IN
    IF text # <<>> /\ Len(text) > IdTextMinLen
    THEN LET words == SplitWords(text)
             text_part == CleanForId(Lower(Join(SubSeq(words, 1, Min(2, Len(words))),
                                                <<"_">>)))
         IN  IF text_part # <<>> THEN <<"_">> \o text_part ELSE <<>>
    ELSE <<>>

GenerateElementIdFresh(t, n) == Decimal(run) \o Decimal(n)
GenerateElementId(t, n) ==
    IF Get(t, n, "id") # <<>> THEN IdPrefix \o Get(t, n, "id")
    ELSE IF Get(t, n, "name") # <<>> THEN NamePrefix \o Get(t, n, "name")
    ELSE LET base_id ==
                 TagChars(Name(t, n)) \o <<"_">> \o Decimal(PositionAmongSameTag(t, n))
                 \o (IF Classes(t, n) # <<>>
                     THEN <<"_">> \o Classes(t, n)[1] ELSE <<>>)
                 \o (IF Get(t, n, "type") # <<>>
                     THEN <<"_">> \o Get(t, n, "type") ELSE <<>>)
                 \o ElementIdTextPart(t, n)
         IN  SubSeq(base_id, 1, Min(Len(base_id), IdMaxLen))

(***************************************************************************)
(* ElementClassifier._determine_semantic_type                              *)
(***************************************************************************)
SearchIndicators == <<<<"s", "e", "a", "r", "c", "h">>, <<"q", "u", "e", "r",
    "y">>, <<"f", "i", "n", "d">>>>
LoginIndicators == <<<<"l", "o", "g", "i", "n">>, <<"s", "i", "g", "n", "i",
    "n">>, <<"s", "i", "g", "n", "-", "i", "n">>, <<"a", "u", "t", "h">>,
    <<"u", "s", "e", "r">>>>
NavIndicators == <<<<"n", "a", "v">>, <<"m", "e", "n", "u">>, <<"h", "e", "a",
    "d", "e", "r">>, <<"b", "r", "e", "a", "d", "c", "r", "u", "m", "b">>>>

\* _load_semantic_patterns, in dictionary order
SemanticPatterns == <<
    [type |-> "SEARCH_FORM", patterns |-> <<<<"s", "e", "a", "r", "c", "h">>,
        <<"f", "i", "n", "d">>, <<"q", "u", "e", "r", "y">>, <<"l", "o", "o",
        "k", "u", "p">>>>],
    [type |-> "LOGIN_FORM", patterns |-> <<<<"l", "o", "g", "i", "n">>, <<"s",
        "i", "g", "n", " ", "i", "n">>, <<"l", "o", "g", " ", "i", "n">>,
        <<"s", "i", "g", "n", "i", "n">>, <<"a", "u", "t", "h", "e", "n", "t",
        "i", "c", "a", "t", "e">>>>],
    [type |-> "REGISTRATION_FORM", patterns |-> <<<<"r", "e", "g", "i", "s",
        "t", "e", "r">>, <<"s", "i", "g", "n", " ", "u", "p">>, <<"s", "i",
        "g", "n", "u", "p">>, <<"c", "r", "e", "a", "t", "e", " ", "a", "c",
        "c", "o", "u", "n", "t">>>>],
    [type |-> "CONTACT_FORM", patterns |-> <<<<"c", "o", "n", "t", "a", "c",
        "t">>, <<"m", "e", "s", "s", "a", "g", "e">>, <<"f", "e", "e", "d",
        "b", "a", "c", "k">>, <<"i", "n", "q", "u", "i", "r", "y">>>>],
    [type |-> "CHECKOUT_FORM", patterns |-> <<<<"c", "h", "e", "c", "k", "o",
        "u", "t">>, <<"p", "a", "y", "m", "e", "n", "t">>, <<"b", "i", "l",
        "l", "i", "n", "g">>, <<"p", "u", "r", "c", "h", "a", "s", "e">>>>],
    [type |-> "CART", patterns |-> <<<<"c", "a", "r", "t">>, <<"b", "a", "s",
        "k", "e", "t">>, <<"b", "a", "g">>, <<"s", "h", "o", "p", "p", "i",
        "n", "g">>>>],
    [type |-> "WISHLIST", patterns |-> <<<<"w", "i", "s", "h", "l", "i", "s",
        "t">>, <<"f", "a", "v", "o", "r", "i", "t", "e", "s">>, <<"s", "a",
        "v", "e", "d">>, <<"b", "o", "o", "k", "m", "a", "r", "k">>>>],
    [type |-> "SOCIAL_MEDIA", patterns |-> <<<<"s", "h", "a", "r", "e">>,
        <<"l", "i", "k", "e">>, <<"f", "o", "l", "l", "o", "w">>, <<"t", "w",
        "e", "e", "t">>, <<"f", "a", "c", "e", "b", "o", "o", "k">>, <<"t",
        "w", "i", "t", "t", "e", "r">>>>],
    [type |-> "ADVERTISEMENT", patterns |-> <<<<"a", "d">>, <<"a", "d", "v",
        "e", "r", "t", "i", "s", "e", "m", "e", "n", "t">>, <<"s", "p", "o",
        "n", "s", "o", "r">>, <<"p", "r", "o", "m", "o", "t", "e", "d">>>>],
    [type |-> "COOKIE_BANNER", patterns |-> <<<<"c", "o", "o", "k", "i",
        "e">>, <<"p", "r", "i", "v", "a", "c", "y">>, <<"a", "c", "c", "e",
        "p", "t">>, <<"c", "o", "n", "s", "e", "n", "t">>>>]
>>

AnyIn(indicators, hays) ==
    \E i \in 1..Len(indicators) : \E h \in hays : Contains(h, indicators[i])

\* _determine_semantic_type with the navigation rule reading the text too
DetermineSemanticTypeNavText(t, n, text_content) ==
    LET element_id == Lower(Get(t, n, "id"))
        element_classes == Lower(Join(Classes(t, n), <<" ">>))
        text_lower == Lower(text_content)
    IN  IF AnyIn(SearchIndicators, {element_id, element_classes, text_lower})
        THEN "SEARCH_FORM"
        ELSE IF AnyIn(LoginIndicators, {element_id, element_classes, text_lower})
        THEN "LOGIN_FORM"
        ELSE IF Name(t, n) = "nav"
                \/ AnyIn(NavIndicators, {element_id, element_classes, text_lower})
        THEN "PRIMARY_NAV"
        ELSE IF \E i \in 1..Len(SemanticPatterns) :
                    AnyIn(SemanticPatterns[i].patterns, {text_lower})
        THEN SemanticPatterns[
                 CHOOSE i \in 1..Len(SemanticPatterns) :
                     /\ AnyIn(SemanticPatterns[i].patterns, {text_lower})
                     /\ \A j \in 1..(i - 1) :
                            ~AnyIn(SemanticPatterns[j].patterns, {text_lower})].type
        ELSE None

\* _determine_semantic_type
DetermineSemanticType(t, n, text_content) ==
    LET element_id == Lower(Get(t, n, "id"))
        element_classes == Lower(Join(Classes(t, n), <<" ">>))
        text_lower == Lower(text_content)
    IN  IF AnyIn(SearchIndicators, {element_id, element_classes, text_lower})
        THEN "SEARCH_FORM"
        ELSE IF AnyIn(LoginIndicators, {element_id, element_classes, text_lower})
        THEN "LOGIN_FORM"
        ELSE IF Name(t, n) = "nav"
                \/ AnyIn(NavIndicators, {element_id, element_classes})
        THEN "PRIMARY_NAV"
        ELSE IF \E i \in 1..Len(SemanticPatterns) :
                    AnyIn(SemanticPatterns[i].patterns, {text_lower})
        THEN SemanticPatterns[
                 CHOOSE i \in 1..Len(SemanticPatterns) :
                     /\ AnyIn(SemanticPatterns[i].patterns, {text_lower})
                     /\ \A j \in 1..(i - 1) :
                            ~AnyIn(SemanticPatterns[j].patterns, {text_lower})].type
        ELSE None

(***************************************************************************)
(* ElementClassifier._calculate_confidence_score, in tenths.               *)
(***************************************************************************)
MinTextLength == 3
BaseScore == 5
InteractiveBonus == 3
SemanticBonus == 2
IdentityBonus == 1
TextBonus == 1
GenericPenalty == 2
ScoreFloor == 0
ScoreCeiling == 10

Clamp(score) ==
    IF score < ScoreFloor THEN ScoreFloor
    ELSE IF score > ScoreCeiling THEN ScoreCeiling ELSE score

ConfidenceUnclamped(t, n, element_type, semantic_type) ==
    BaseScore
    + (IF element_type \in InteractiveElementTypes THEN InteractiveBonus ELSE 0)
    + (IF semantic_type # None THEN SemanticBonus ELSE 0)
    + (IF Get(t, n, "id") # <<>> \/ Get(t, n, "name") # <<>>
       THEN IdentityBonus ELSE 0)
    + (IF Len(Strip(ExtractTextContent(t, n))) > MinTextLength
       THEN TextBonus ELSE 0)
    - (IF Name(t, n) \in {"div", "span"} /\ ~HasInteractiveAttributes(t, n)
       THEN GenericPenalty ELSE 0)

CalculateConfidenceScoreNoClamp(t, n, element_type, semantic_type) ==
    ConfidenceUnclamped(t, n, element_type, semantic_type)
CalculateConfidenceScore(t, n, element_type, semantic_type) ==
    Clamp(ConfidenceUnclamped(t, n, element_type, semantic_type))

(***************************************************************************)
(* CSS selectors.  A selector is a sequence of compound parts joined by    *)
(* the child combinator " > ".  A part holds the texts the generator wrote *)
(* into it: tag, #id, .class..., [attr="val"], :pseudo(arg).  The empty    *)
(* sequence stands for None.                                               *)
(***************************************************************************)
NoSelector == <<>>

Part(tag, id, cls, attr, val, pseudo, arg) ==
    [tag |-> tag, id |-> id, cls |-> cls, attr |-> attr, val |-> val,
     q |-> DQ, pseudo |-> pseudo, arg |-> arg]

TagPart(tag) == Part(tag, <<>>, <<>>, "", <<>>, "", <<>>)
IdPart(tag, id) == Part(tag, id, <<>>, "", <<>>, "", <<>>)
ClassPart(tag, cls) == Part(tag, <<>>, cls, "", <<>>, "", <<>>)
AttrPart(attr, val) == Part("", <<>>, <<>>, attr, val, "", <<>>)
PseudoPart(tag, pseudo, arg) == Part(tag, <<>>, <<>>, "", <<>>, pseudo, arg)

(***************************************************************************)
(* The uniqueness oracle: soup.select(selector).                           *)
(***************************************************************************)
\* Can the selector text of the part be read as a selector at all
PartReadable(p) ==
    /\ p.id # <<>> => CssReadIdent(p.id) # Malformed
    /\ \A i \in 1..Len(p.cls) : CssReadIdent(p.cls[i]) # Malformed
    /\ p.attr # "" => CssReadQuoted(p.val, p.q) # Malformed
    /\ p.pseudo = "contains" => CssReadQuoted(p.arg, SQ) # Malformed

\* The text "[document]" reads as the attribute test [document].
PartMatches(t, m, p) ==
    /\ m # 0
    /\ \/ p.tag = ""
       \/ p.tag = DocumentName /\ HasAttr(t, m, "document")
       \/ p.tag # DocumentName /\ Name(t, m) = p.tag
    /\ p.id # <<>> => Get(t, m, "id") = CssReadIdent(p.id)
    /\ \A i \in 1..Len(p.cls) :
           \E j \in 1..Len(Classes(t, m)) : Classes(t, m)[j] = CssReadIdent(p.cls[i])
    /\ p.attr # "" =>
           HasAttr(t, m, p.attr) /\ Get(t, m, p.attr) = CssReadQuoted(p.val, p.q)
    /\ p.pseudo = "contains" => Contains(GetText(t, m), CssReadQuoted(p.arg, SQ))
    /\ p.pseudo = "nth-child" =>
           \E i \in 1..Len(Children(t, Parent(t, m))) :
               Children(t, Parent(t, m))[i] = m /\ Decimal(i) = p.arg

RECURSIVE ChainMatches(_, _, _, _)
ChainMatches(t, m, sel, k) ==
    /\ PartMatches(t, m, sel[k])
    /\ k > 1 => /\ Parent(t, m) # 0
                /\ ChainMatches(t, Parent(t, m), sel, k - 1)

\* soup.select(selector): the matching tags in document order, or an exception
Select(t, sel) ==
    IF \E k \in 1..Len(sel) : ~PartReadable(sel[k])
    THEN [ok |-> FALSE, nodes |-> <<>>]
    ELSE [ok |-> TRUE,
          nodes |-> SelectSeq([i \in 1..Size(t) |-> i],
                              LAMBDA m : ChainMatches(t, m, sel, Len(sel)))]

\* _is_selector_unique: an exception of the query counts as "not unique"
IsSelectorUnique(t, sel, target) ==
    LET selected == Select(t, sel)
    IN  /\ selected.ok
        /\ Len(selected.nodes) = 1
        /\ StructEq(t, selected.nodes[1], target)

(***************************************************************************)
(* CSSSelectorsGenerator                                                   *)
(***************************************************************************)
CssMaxDepth == 10
CssTextMaxLen == 50

\* re.match(r'^[a-zA-Z][\w-]*$', element_id)
IsValidIdAnyStart(element_id) == element_id # <<>>
IsValidId(element_id) ==
    /\ element_id # <<>>
    /\ element_id[1] \in Letters
    /\ \A i \in 2..Len(element_id) : IsCssSafeChar(element_id[i])

AllDigits(s) == s # <<>> /\ \A i \in 1..Len(s) : s[i] \in Digits
AllWordChars(s) == s # <<>> /\ \A i \in 1..Len(s) : IsAlnumOrUnderscore(s[i])
AllHexLower(s) ==
    \A i \in 1..Len(s) : s[i] \in Digits \cup {"a", "b", "c", "d", "e", "f"}

UtilityWords == {<<"h", "i", "d", "d", "e", "n">>, <<"v", "i", "s", "i", "b",
    "l", "e">>, <<"f", "l", "e", "x">>, <<"b", "l", "o", "c", "k">>, <<"i",
    "n", "l", "i", "n", "e">>}
SpacingPrefixes == {<<"m">>, <<"m", "t">>, <<"m", "b">>, <<"m", "l">>, <<"m",
    "r">>, <<"p">>, <<"p", "t">>, <<"p", "b">>, <<"p", "l">>, <<"p", "r">>}
SizingPrefixes == {<<"w">>, <<"h">>}
WordPrefixes == {<<"b", "g", "-">>, <<"t", "e", "x", "t", "-">>}

\* ^(prefix)-?\d+$ for a prefix of the set
IsPrefixDashDigits(s, prefixes) ==
    \E p \in prefixes :
        /\ StartsWith(s, p)
        /\ LET rest == SubSeq(s, Len(p) + 1, Len(s))
           IN  \/ AllDigits(rest)
               \/ rest # <<>> /\ Head(rest) = "-" /\ AllDigits(Tail(rest))

HashMinLen == 8
ClassMinLen == 2

\* _is_meaningful_class (the patterns are matched ignoring case)
IsMeaningfulClass(class_name) ==
    /\ Len(class_name) >= ClassMinLen
    /\ ~(Len(class_name) >= HashMinLen /\ AllHexLower(Lower(class_name)))
    /\ Lower(class_name) \notin UtilityWords
    /\ ~IsPrefixDashDigits(Lower(class_name), SpacingPrefixes)
    /\ ~IsPrefixDashDigits(Lower(class_name), SizingPrefixes)
    /\ ~\E p \in WordPrefixes :
            /\ StartsWith(Lower(class_name), p)
            /\ AllWordChars(SubSeq(class_name, Len(p) + 1, Len(class_name)))

MeaningfulClasses(t, n) == SelectSeq(Classes(t, n), IsMeaningfulClass)

\* _generate_id_selector
GenerateIdSelector(t, n) ==
    IF Get(t, n, "id") # <<>> /\ IsValidId(Get(t, n, "id"))
    THEN <<IdPart("", EscapeCssIdentifier(Get(t, n, "id")))>>
    ELSE NoSelector

UniqueAttrs == <<"name", "data-testid", "data-cy", "data-test", "data-automation">>
\* attr_name.startswith('data-'), for the attribute names of the model
DataAttrNames ==
    {"data-testid", "data-cy", "data-test", "data-automation",
     "data-toggle", "data-target", "data-dismiss", "data-id"}

AttributeSelector(attr_name, attr_value) ==
    <<AttrPart(attr_name, EscapeAttributeValue(attr_value))>>

\* the first selector of the sequence that the oracle confirms, else None
RECURSIVE FirstUnique(_, _, _)
FirstUnique(t, n, candidates) ==
    IF candidates = <<>> THEN NoSelector
    ELSE IF IsSelectorUnique(t, Head(candidates), n) THEN Head(candidates)
    ELSE FirstUnique(t, n, Tail(candidates))

\* _generate_unique_attribute_selector
GenerateUniqueAttributeSelector(t, n) ==
    LET priority == SelectSeq(UniqueAttrs, LAMBDA a : Get(t, n, a) # <<>>)
        others == SelectSeq(Attrs(t, n),
                            LAMBDA kv : kv[1] \in DataAttrNames
                                        /\ kv[1] \notin Range(UniqueAttrs))
    IN  FirstUnique(t, n,
            [i \in 1..Len(priority) |->
                AttributeSelector(priority[i], Get(t, n, priority[i]))]
            \o [i \in 1..Len(others) |->
                AttributeSelector(others[i][1], others[i][2])])

\* _generate_class_selector
GenerateClassSelector(t, n) ==
    LET classes == Classes(t, n)
        meaningful == MeaningfulClasses(t, n)
        singles == [i \in 1..Len(meaningful) |->
                       <<ClassPart("", <<EscapeCssIdentifier(meaningful[i])>>)>>]
        combined == IF Len(classes) > 1 /\ meaningful # <<>>
                    THEN << <<ClassPart("", [i \in 1..Len(meaningful) |->
                                   EscapeCssIdentifier(meaningful[i])])>> >>
                    ELSE <<>>
    IN  IF classes = <<>> THEN NoSelector
        ELSE FirstUnique(t, n, singles \o combined)

\* _generate_element_part: the two soup.select calls are not guarded
GenerateElementPart(t, m) ==
    IF Get(t, m, "id") # <<>>
    THEN [raised |-> FALSE,
          part |-> IdPart(Name(t, m), EscapeCssIdentifier(Get(t, m, "id")))]
    ELSE IF MeaningfulClasses(t, m) # <<>>
    THEN LET class_part == <<EscapeCssIdentifier(MeaningfulClasses(t, m)[1])>>
             with_class == Select(t, <<ClassPart(Name(t, m), class_part)>>)
             bare == Select(t, <<TagPart(Name(t, m))>>)
         IN  IF ~with_class.ok \/ ~bare.ok
             THEN [raised |-> TRUE, part |-> TagPart(Name(t, m))]
             ELSE IF Len(with_class.nodes) < Len(bare.nodes)
             THEN [raised |-> FALSE, part |-> ClassPart(Name(t, m), class_part)]
             ELSE [raised |-> FALSE, part |-> TagPart(Name(t, m))]
    ELSE [raised |-> FALSE, part |-> TagPart(Name(t, m))]

\* the while loop of _generate_hierarchical_selector
RECURSIVE HierarchicalLoop(_, _, _, _, _)
HierarchicalLoop(t, target, current, depth, parts) ==
    IF current = NoNode \/ depth >= CssMaxDepth
    THEN [raised |-> FALSE, sel |-> parts]
    ELSE LET p == GenerateElementPart(t, current) IN
         IF p.raised THEN [raised |-> TRUE, sel |-> NoSelector]
         ELSE IF IsSelectorUnique(t, <<p.part>> \o parts, target)
         THEN [raised |-> FALSE, sel |-> <<p.part>> \o parts]
         ELSE HierarchicalLoop(t, target, Parent(t, current), depth + 1,
                               <<p.part>> \o parts)

\* _generate_hierarchical_selector
GenerateHierarchicalSelector(t, n) == HierarchicalLoop(t, n, n, 0, <<>>)

\* _escape_text_content
EscapeTextContent(text) ==
    ReplaceChar(ReplaceChar(text, SQ, <<BS, SQ>>), DQ, <<BS, DQ>>)

\* _generate_text_selector
GenerateTextSelector(t, n) ==
    LET text_content == GetText(t, n) IN
    IF text_content = <<>> \/ Len(text_content) > CssTextMaxLen THEN NoSelector
    ELSE IF Name(t, n) \in {"a", "button", "h1", "h2", "h3", "h4", "h5", "h6"}
    THEN <<PseudoPart(Name(t, n), "contains", EscapeTextContent(text_content))>>
    ELSE NoSelector

\* _generate_nth_child_selector
GenerateNthChildSelector(t, n) ==
    LET siblings == SelectSeq(Children(t, Parent(t, n)),
                              LAMBDA k : Name(t, k) = Name(t, n))
    IN  <<PseudoPart(Name(t, n), "nth-child", Decimal(IndexOf(t, siblings, n)))>>

\* _generate_fallback_selector
GenerateFallbackSelector(t, n) == <<TagPart(Name(t, n))>>

\* generate_selector: every strategy runs, the first one that gave a
\* selector wins; an exception of the ancestor-chain strategy escapes
GenerateSelectorOrNone(t, n) == [raised |-> FALSE, sel |-> NoSelector]
GenerateSelector(t, n) ==
    LET hierarchical == GenerateHierarchicalSelector(t, n)
        selectors == SelectSeq(<<GenerateIdSelector(t, n),
                                 GenerateUniqueAttributeSelector(t, n),
                                 GenerateClassSelector(t, n),
                                 hierarchical.sel,
                                 GenerateTextSelector(t, n)>>,
                               LAMBDA s : s # NoSelector)
        with_nth == IF selectors = <<>>
                    THEN <<GenerateNthChildSelector(t, n)>> ELSE selectors
    IN  IF hierarchical.raised THEN [raised |-> TRUE, sel |-> NoSelector]
        ELSE [raised |-> FALSE,
              sel |-> IF with_nth # <<>> THEN with_nth[1]
                      ELSE GenerateFallbackSelector(t, n)]

(***************************************************************************)
(* XPath expressions.  An expression is "//" or "/" followed by steps      *)
(* joined by "/".  A step holds the texts the generator wrote into it: the *)
(* tag and a predicate, whose literal lit is the text after the = sign (or *)
(* the second argument of contains).                                       *)
(***************************************************************************)
NoXPath == [abs |-> "none", steps |-> <<>>]

Step(tag, pred, attr, lit, pos) ==
    [tag |-> tag, pred |-> pred, attr |-> attr, lit |-> lit, pos |-> pos]

PlainStep(tag) == Step(tag, "", "", <<>>, 0)
AttrStep(tag, attr, value) == Step(tag, "attr", attr, XPathEmbed(value), 0)
TextStep(tag, pred, value) == Step(tag, pred, "", XPathEmbed(value), 0)
ClassStep(tag, value) == Step(tag, "contains-class", "class", XPathEmbed(value), 0)
PosStep(tag, pos) == Step(tag, "pos", "", <<>>, pos)

XPath(abs, steps) == [abs |-> abs, steps |-> steps]

(***************************************************************************)
(* What an XPath engine answers for an expression (the generator itself    *)
(* never asks one).                                                        *)
(***************************************************************************)
StepReadable(s) ==
    /\ s.tag # DocumentName
    /\ s.pred \in {"attr", "text", "normtext", "normdot", "contains-class"}
           => XPathStringValue(s.lit) # Malformed

\* normalize-space(): stripped, runs of spaces collapsed
NormalizeSpace(s) == Join(SplitWords(s), <<" ">>)

\* the string-value of a node: all the text below it
RECURSIVE StringValue(_, _)
StringValue(t, n) ==
    t.node[n].text
    \o Flatten([i \in 1..Len(Children(t, n)) |-> StringValue(t, Children(t, n)[i])])

StepMatches(t, m, s) ==
    /\ m # 0
    /\ s.tag = "*" \/ Name(t, m) = s.tag
    /\ s.pred = "attr" =>
           HasAttr(t, m, s.attr) /\ Get(t, m, s.attr) = XPathStringValue(s.lit)
    /\ s.pred = "text" =>
           t.node[m].text # <<>> /\ t.node[m].text = XPathStringValue(s.lit)
    /\ s.pred = "normtext" =>
           t.node[m].text # <<>>
           /\ NormalizeSpace(t.node[m].text) = XPathStringValue(s.lit)
    /\ s.pred = "normdot" =>
           NormalizeSpace(StringValue(t, m)) = XPathStringValue(s.lit)
    /\ s.pred = "contains-class" =>
           Classes(t, m) # <<>>
           /\ Contains(Join(Classes(t, m), <<" ">>), XPathStringValue(s.lit))
    /\ s.pred = "pos" =>
           LET same == SelectSeq(Children(t, Parent(t, m)),
                                 LAMBDA k : Name(t, k) = Name(t, m))
           IN  s.pos \in 1..Len(same) /\ same[s.pos] = m

RECURSIVE StepsMatch(_, _, _, _)
StepsMatch(t, m, x, k) ==
    /\ StepMatches(t, m, x.steps[k])
    /\ k = 1 => x.abs = "//" \/ Parent(t, m) = 0
    /\ k > 1 => Parent(t, m) # 0 /\ StepsMatch(t, Parent(t, m), x, k - 1)

XPathEval(t, x) ==
    IF x.steps = <<>> \/ \E k \in 1..Len(x.steps) : ~StepReadable(x.steps[k])
    THEN [ok |-> FALSE, nodes |-> <<>>]
    ELSE [ok |-> TRUE,
          nodes |-> SelectSeq([i \in 1..Size(t) |-> i],
                              LAMBDA m : StepsMatch(t, m, x, Len(x.steps)))]

(***************************************************************************)
(* XPathGenerator                                                          *)
(***************************************************************************)
XPathMaxDepth == 10
XPathTextMaxLen == 100
XPathAttrMaxLen == 50
ParentPathMaxDepth == 3

\* _is_xpath_unique: "For now, return True to avoid breaking the flow"
IsXPathUnique(t, xpath, target) == TRUE

\* _is_xpath_too_generic: exactly //*, //div or //span
IsXPathTooGeneric(x) ==
    /\ x.abs = "//"
    /\ Len(x.steps) = 1
    /\ x.steps[1].pred = ""
    /\ x.steps[1].tag \in {"*", "div", "span"}

\* _generate_id_xpath
GenerateIdXPath(t, n) ==
    IF Get(t, n, "id") # <<>> /\ IsValidId(Get(t, n, "id"))
    THEN XPath("//", <<AttrStep("*", "id", Get(t, n, "id"))>>)
    ELSE NoXPath

RECURSIVE FirstUniqueXPath(_, _, _)
FirstUniqueXPath(t, n, candidates) ==
    IF candidates = <<>> THEN NoXPath
    ELSE IF IsXPathUnique(t, Head(candidates), n) THEN Head(candidates)
    ELSE FirstUniqueXPath(t, n, Tail(candidates))

\* _generate_unique_attribute_xpath
GenerateUniqueAttributeXPath(t, n) ==
    LET priority == SelectSeq(UniqueAttrs, LAMBDA a : Get(t, n, a) # <<>>)
        others == SelectSeq(Attrs(t, n),
                            LAMBDA kv : kv[1] \notin {"class", "style", "id"}
                                        /\ kv[1] \notin Range(UniqueAttrs))
    IN  FirstUniqueXPath(t, n,
            [i \in 1..Len(priority) |->
                XPath("//", <<AttrStep("*", priority[i], Get(t, n, priority[i]))>>)]
            \o [i \in 1..Len(others) |->
                XPath("//", <<AttrStep("*", others[i][1], others[i][2])>>)])

\* _generate_text_xpath
GenerateTextXPath(t, n) ==
    LET text_content == GetText(t, n)
        xpaths == <<XPath("//", <<TextStep(Name(t, n), "text", text_content)>>),
                    XPath("//", <<TextStep(Name(t, n), "normtext", text_content)>>),
                    XPath("//", <<TextStep("*", "text", text_content)>>),
                    XPath("//", <<TextStep("*", "normdot", text_content)>>)>>
        usable == SelectSeq(xpaths, LAMBDA x : ~IsXPathTooGeneric(x))
    IN  IF text_content = <<>> \/ Len(text_content) > XPathTextMaxLen THEN NoXPath
        ELSE IF usable # <<>> THEN usable[1] ELSE NoXPath

\* _generate_position_part
GeneratePositionPart(t, m) ==
    IF Parent(t, m) = NoNode THEN PlainStep(Name(t, m))
    ELSE LET siblings == SelectSeq(Children(t, Parent(t, m)),
                                   LAMBDA k : Name(t, k) = Name(t, m))
         IN  PosStep(Name(t, m), IndexOf(t, siblings, m))

\* _generate_element_xpath_part
GenerateElementXPathPart(t, m) ==
    LET short == SelectSeq(Attrs(t, m),
                           LAMBDA kv : kv[1] \notin {"class", "style"}
                                       /\ Len(kv[2]) < XPathAttrMaxLen)
    IN  IF Get(t, m, "id") # <<>>
        THEN AttrStep(Name(t, m), "id", Get(t, m, "id"))
        ELSE IF short # <<>>
        THEN AttrStep(Name(t, m), short[1][1], short[1][2])
        ELSE IF MeaningfulClasses(t, m) # <<>>
        THEN ClassStep(Name(t, m), MeaningfulClasses(t, m)[1])
        ELSE GeneratePositionPart(t, m)

\* the while loop of _generate_hierarchical_xpath
RECURSIVE HierarchicalXPathLoop(_, _, _, _, _)
HierarchicalXPathLoop(t, target, current, depth, parts) ==
    IF current = NoNode \/ depth >= XPathMaxDepth
    THEN (IF parts # <<>> THEN XPath("/", parts) ELSE NoXPath)
    ELSE LET parts2 == <<GenerateElementXPathPart(t, current)>> \o parts IN
         IF Len(parts2) >= 2 /\ IsXPathUnique(t, XPath("/", parts2), target)
         THEN XPath("/", parts2)
         ELSE HierarchicalXPathLoop(t, target, Parent(t, current), depth + 1, parts2)

\* _generate_hierarchical_xpath
GenerateHierarchicalXPath(t, n) == HierarchicalXPathLoop(t, n, n, 0, <<>>)

\* the while loop of _generate_simple_parent_path
RECURSIVE SimpleParentPathLoop(_, _, _, _)
SimpleParentPathLoop(t, current, depth, parts) ==
    IF current = NoNode \/ depth >= ParentPathMaxDepth THEN parts
    ELSE IF Get(t, current, "id") # <<>>
    THEN <<AttrStep(Name(t, current), "id", Get(t, current, "id"))>> \o parts
    ELSE SimpleParentPathLoop(t, Parent(t, current), depth + 1,
                              <<PlainStep(Name(t, current))>> \o parts)

\* _generate_position_xpath
GeneratePositionXPath(t, n) ==
    LET siblings == SelectSeq(Children(t, Parent(t, n)),
                              LAMBDA k : Name(t, k) = Name(t, n))
        step == PosStep(Name(t, n), IndexOf(t, siblings, n))
        parent_path == SimpleParentPathLoop(t, Parent(t, n), 0, <<>>)
    IN  IF parent_path # <<>> THEN XPath("/", parent_path \o <<step>>)
        ELSE XPath("//", <<step>>)

\* _generate_fallback_xpath
GenerateFallbackXPath(t, n) == XPath("//", <<PlainStep(Name(t, n))>>)

\* generate_xpath
\* generate_xpath without its ancestor-chain and position strategies
GenerateXPathShort(t, n) ==
    LET xpaths == SelectSeq(<<GenerateIdXPath(t, n),
                              GenerateUniqueAttributeXPath(t, n),
                              GenerateTextXPath(t, n)>>,
                            LAMBDA x : x # NoXPath)
    IN  IF xpaths # <<>> THEN xpaths[1] ELSE GenerateFallbackXPath(t, n)

\* generate_xpath
GenerateXPath(t, n) ==
    LET xpaths == SelectSeq(<<GenerateIdXPath(t, n),
                              GenerateUniqueAttributeXPath(t, n),
                              GenerateTextXPath(t, n),
                              GenerateHierarchicalXPath(t, n),
                              GeneratePositionXPath(t, n)>>,
                            LAMBDA x : x # NoXPath)
    IN  IF xpaths # <<>> THEN xpaths[1] ELSE GenerateFallbackXPath(t, n)

(***************************************************************************)
(* ElementClassifier._generate_locators.  The locators map is the sequence *)
(* of its entries in insertion order; an entry holds its key and the       *)
(* expression stored under it (a plain text, a selector or a path).        *)
(***************************************************************************)
TextLocator(key, text) ==
    [key |-> key, kind |-> "text", text |-> text, css |-> NoSelector, xpath |-> NoXPath]
CssLocator(key, css) ==
    [key |-> key, kind |-> "css", text |-> <<>>, css |-> css, xpath |-> NoXPath]
XPathLocator(key, xpath) ==
    [key |-> key, kind |-> "xpath", text |-> <<>>, css |-> NoSelector, xpath |-> xpath]

\* f"[{attr_name}='{attr_value}']": the value between single quotes, as is
RawAttrSelector(attr_name, attr_value) ==
    <<[AttrPart(attr_name, attr_value) EXCEPT !.q = SQ]>>
\* f"//*[@{attr_name}='{attr_value}']": the value between single quotes, as is
RawAttrXPath(attr_name, attr_value) ==
    XPath("//", <<Step("*", "attr", attr_name, <<SQ>> \o attr_value \o <<SQ>>, 0)>>)

TestAttrs == {"data-testid", "data-cy", "data-test"}

GenerateLocators(t, n, css_selector, xpath) ==
    LET id == Get(t, n, "id")
        name == Get(t, n, "name")
        text_content == ExtractTextContent(t, n)
        test_attrs == SelectSeq(Attrs(t, n), LAMBDA kv : kv[1] \in TestAttrs)
    IN  (IF id # <<>>
         THEN <<CssLocator("id", <<IdPart("", id)>>),
                CssLocator("css", <<IdPart("", id)>>),
                XPathLocator("xpath", RawAttrXPath("id", id))>>
         ELSE <<>>)
        \o (IF name # <<>>
            THEN <<TextLocator("name", name),
                   CssLocator("css_name", RawAttrSelector("name", name)),
                   XPathLocator("xpath_name", RawAttrXPath("name", name))>>
            ELSE <<>>)
        \o (IF Classes(t, n) # <<>>
            THEN <<CssLocator("css_class", <<ClassPart("", Classes(t, n))>>)>>
            ELSE <<>>)
        \o (IF css_selector # NoSelector
            THEN <<CssLocator("css_generated", css_selector)>> ELSE <<>>)
        \o (IF xpath # NoXPath
            THEN <<XPathLocator("xpath_generated", xpath)>> ELSE <<>>)
        \o (IF text_content # <<>> /\ Len(Strip(text_content)) > 0
            THEN IF Name(t, n) = "a"
                 THEN <<TextLocator("link_text", Strip(text_content))>>
                 ELSE IF Name(t, n) \in {"button", "input"}
                         /\ Get(t, n, "type") \in {W_submit, W_button}
                 THEN <<TextLocator("button_text", Strip(text_content))>>
                 ELSE <<>>
            ELSE <<>>)
        \o [i \in 1..Len(test_attrs) |->
               CssLocator("attr_" \o test_attrs[i][1],
                          RawAttrSelector(test_attrs[i][1], test_attrs[i][2]))]

HasLocator(locators, key) == \E i \in 1..Len(locators) : locators[i].key = key
Locator(locators, key) ==
    locators[CHOOSE i \in 1..Len(locators) : locators[i].key = key]

(***************************************************************************)
(* The record of one classified element (_classify_single_element).        *)
(***************************************************************************)
NoParent == <<>>
\* ElementHierarchy()
DefaultHierarchy ==
    [parent |-> NoParent, children |-> <<>>, siblings |-> <<>>, depth |-> 0]

\* node is the tag the record was made from (not a field of the record)
InteractiveElement(t, n, css_selector, xpath) ==
    LET element_type == GetElementType(t, n)
        text_content == ExtractTextContent(t, n)
        semantic_type == DetermineSemanticType(t, n, text_content)
    IN  [node |-> n,
         element_id |-> GenerateElementId(t, n),
         element_type |-> element_type,
         tag_name |-> Name(t, n),
         locators |-> GenerateLocators(t, n, css_selector, xpath),
         text_content |-> text_content,
         interaction_types |-> DetermineInteractionTypes(t, n, element_type),
         form_field_type |-> GetFormFieldType(t, n),
         semantic_type |-> semantic_type,
         confidence_score |->
             CalculateConfidenceScore(t, n, element_type, semantic_type),
         hierarchy |-> DefaultHierarchy]

(***************************************************************************)
(* ElementClassifier._build_element_relationships                          *)
(***************************************************************************)
\* soup.find(...): the first tag of the document carrying the attribute value
FindByAttr(t, name, value) ==
    LET found == SelectSeq([i \in 1..Size(t) |-> i],
                           LAMBDA m : HasAttr(t, m, name) /\ Get(t, m, name) = value)
    IN  IF found # <<>> THEN found[1] ELSE NoNode

\* _find_dom_element_by_locators (the 'css' key only exists beside 'id')
FindDomElementByLocators(t, locators) ==
    IF HasLocator(locators, "id")
    THEN FindByAttr(t, "id",
                    ReplaceChar(<<"#">> \o Locator(locators, "id").css[1].id, "#", <<>>))
    ELSE IF HasLocator(locators, "name")
    THEN FindByAttr(t, "name", Locator(locators, "name").text)
    ELSE NoNode

\* element_map after the records rs[1..i]: one entry per element_id, at the
\* position of its first insertion, holding the last record inserted
RECURSIVE ElementMap(_, _, _)
ElementMap(t, rs, i) ==
    IF i = 0 THEN <<>>
    ELSE LET before == ElementMap(t, rs, i - 1)
             dom == FindDomElementByLocators(t, rs[i].locators)
             entry == [element_id |-> rs[i].element_id, rec |-> i, dom |-> dom]
         IN  IF dom = NoNode THEN before
             ELSE IF \E k \in 1..Len(before) : before[k].element_id = entry.element_id
             THEN [k \in 1..Len(before) |->
                      IF before[k].element_id = entry.element_id
                      THEN entry ELSE before[k]]
             ELSE Append(before, entry)

\* _find_interactive_element_for_dom: the element_id of the first entry whose
\* tag equals dom_elem, NoParent when there is none
FindInteractiveElementForDom(t, dom_elem, element_map) ==
    LET hits == SelectSeq(element_map, LAMBDA e : StructEq(t, dom_elem, e.dom))
    IN  IF hits # <<>> THEN hits[1].element_id ELSE NoParent

RECURSIVE Depth(_, _)
Depth(t, n) == IF Parent(t, n) = NoNode THEN 0 ELSE 1 + Depth(t, Parent(t, n))

HierarchyOf(t, entry, element_map) ==
    LET below == Descendants(t, entry.dom)
        ids == [i \in 1..Len(below) |->
                   FindInteractiveElementForDom(t, below[i], element_map)]
    IN  [parent |-> FindInteractiveElementForDom(t, Parent(t, entry.dom), element_map),
         children |-> SelectSeq(ids, LAMBDA c : c # NoParent /\ c # entry.element_id),
         siblings |-> DefaultHierarchy.siblings,
         depth |-> Depth(t, entry.dom)]

BuildElementRelationships(t, rs) ==
    LET element_map == ElementMap(t, rs, Len(rs))
    IN  [i \in 1..Len(rs) |->
            IF \E k \in 1..Len(element_map) : element_map[k].rec = i
            THEN LET entry == element_map[CHOOSE k \in 1..Len(element_map) :
                                              element_map[k].rec = i]
                 IN  [rs[i] EXCEPT !.hierarchy = HierarchyOf(t, entry, element_map)]
            ELSE rs[i]]

(***************************************************************************)
(* ElementClassifier.classify_elements, one tag of soup.find_all() at a    *)
(* time, then the relationships; the pass can be run again on the tree.    *)
(***************************************************************************)
MaxRuns == 2

\* what the previous run returned
NoRun == [outcome |-> "none", recs |-> <<>>]

\* html_source: its text (only its blankness matters: "<" stands for any
\* markup), and whether some parser of HTMLAnalyzer.parsers returns a soup
\* that holds a tag
Markup == <<"<">>
HtmlSource(html, parsed) == [html |-> html, parsed |-> parsed]
RootlessSources ==
    {HtmlSource(<<>>, FALSE), HtmlSource(<<" ">>, FALSE),
     HtmlSource(<<" ", " ">>, FALSE), HtmlSource(Markup, FALSE)}
\* the soup of a source that has none
NoTree == [parent |-> <<>>, node |-> <<>>]

\* parse_html: the exception it raises, None when it returns the soup
ParseHtmlRaises(html_source) ==
    IF html_source.html = <<>> \/ Strip(html_source.html) = <<>> THEN "ValueError"
    ELSE IF ~html_source.parsed THEN "Exception"
    ELSE None

\* the exception a query of the selector generator raises
SelectorSyntaxError == "SelectorSyntaxError"

\* parse_page, line 167: except Exception
CaughtOnlyValueError(exception) == exception = "ValueError"
CaughtByParsePage(exception) == TRUE

Init ==
    /\ \/ source = HtmlSource(Markup, TRUE) /\ tree \in Trees
       \/ source \in RootlessSources /\ tree = NoTree
    /\ errors = <<>>
    /\ pc = "parse"
    /\ cursor = 1
    /\ recs = <<>>
    /\ run = 1
    /\ prev = NoRun
    /\ escVal = <<>>
    /\ escCss = Unset
    /\ escXp = Unset
    /\ FreshParser

\* parse_page, line 106: the soup is there
ParseHtml ==
    /\ pc = "parse"
    /\ ParseHtmlRaises(source) = None
    /\ pc' = "classify"
    /\ UNCHANGED <<source, errors, tree, cursor, recs, run, prev>>

\* parse_page, lines 106 and 167-176: parse_html raises, the error result
\* is returned
ParseHtmlFails ==
    /\ pc = "parse"
    /\ ParseHtmlRaises(source) # None
    /\ IF CaughtByParsePage(ParseHtmlRaises(source))
       THEN pc' = "failed" /\ errors' = <<ParseHtmlRaises(source)>>
       ELSE pc' = "raised" /\ errors' = errors
    /\ UNCHANGED <<source, tree, cursor, recs, run, prev>>

AtElement == pc = "classify" /\ cursor <= Size(tree)

\* line 80: a hidden tag is skipped
SkipHiddenElement ==
    /\ AtElement
    /\ IsHiddenElement(tree, cursor)
    /\ cursor' = cursor + 1
    /\ UNCHANGED <<source, errors, tree, pc, recs, run, prev>>

\* lines 109-111: no inclusion signal, no record
SkipNonInteractive ==
    /\ AtElement
    /\ ~IsHiddenElement(tree, cursor)
    /\ ~IsIncluded(tree, cursor)
    /\ cursor' = cursor + 1
    /\ UNCHANGED <<source, errors, tree, pc, recs, run, prev>>

\* lines 84-87: the record of the tag is appended
ClassifyElement ==
    /\ AtElement
    /\ ~IsHiddenElement(tree, cursor)
    /\ IsIncluded(tree, cursor)
    /\ LET css == GenerateSelector(tree, cursor) IN
          /\ ~css.raised
          /\ recs' = Append(recs, InteractiveElement(tree, cursor, css.sel,
                                                     GenerateXPath(tree, cursor)))
    /\ cursor' = cursor + 1
    /\ UNCHANGED <<source, errors, tree, pc, run, prev>>

\* an exception of the selector generator leaves classify_elements (nothing
\* catches it there): parse_page returns the error result, without records
ClassificationFails ==
    /\ AtElement
    /\ ~IsHiddenElement(tree, cursor)
    /\ IsIncluded(tree, cursor)
    /\ GenerateSelector(tree, cursor).raised
    /\ IF CaughtByParsePage(SelectorSyntaxError)
       THEN pc' = "failed" /\ errors' = <<SelectorSyntaxError>>
       ELSE pc' = "raised" /\ errors' = errors
    /\ recs' = <<>>
    /\ UNCHANGED <<source, tree, cursor, run, prev>>

\* line 90, then the return
BuildRelationships ==
    /\ pc = "classify"
    /\ cursor > Size(tree)
    /\ recs' = BuildElementRelationships(tree, recs)
    /\ pc' = "done"
    /\ UNCHANGED <<source, errors, tree, cursor, run, prev>>

\* classify_elements is called again on the same soup
Rerun ==
    /\ pc \in {"done", "failed"}
    /\ ParseHtmlRaises(source) = None
    /\ run < MaxRuns
    /\ prev' = [outcome |-> pc, recs |-> recs]
    /\ run' = run + 1
    /\ pc' = "classify"
    /\ cursor' = 1
    /\ recs' = <<>>
    /\ errors' = <<>>
    /\ UNCHANGED <<source, tree>>

Next ==
    \/ ParseHtml /\ UNCHANGED <<escVars, cacheVars>>
    \/ ParseHtmlFails /\ UNCHANGED <<escVars, cacheVars>>
    \/ SkipHiddenElement /\ UNCHANGED <<escVars, cacheVars>>
    \/ SkipNonInteractive /\ UNCHANGED <<escVars, cacheVars>>
    \/ ClassifyElement /\ UNCHANGED <<escVars, cacheVars>>
    \/ ClassificationFails /\ UNCHANGED <<escVars, cacheVars>>
    \/ BuildRelationships /\ UNCHANGED <<escVars, cacheVars>>
    \/ Rerun /\ UNCHANGED <<escVars, cacheVars>>

Spec == Init /\ [][Next]_vars

(***************************************************************************)
(* The escaping harness: a value is drawn, and each generator embeds it.   *)
(***************************************************************************)
EscAlphabet == {"a", SQ, DQ, BS}
EscValues == StringsUpTo(EscAlphabet, MaxStrLen) \ {<<>>}

EscInit ==
    /\ escVal \in EscValues
    /\ escCss = Unset
    /\ escXp = Unset
    /\ FreshParser
    /\ source = HtmlSource(<<>>, FALSE) /\ errors = <<>>
    /\ tree = None /\ pc = "idle" /\ cursor = 0
    /\ recs = <<>> /\ run = 0 /\ prev = NoRun

\* css_selector_generator.py line 142: selector = f'[{attr_name}="{escaped}"]'
CssEmbedAttribute ==
    /\ escCss = Unset
    /\ escCss' = EscapeAttributeValue(escVal)
    /\ UNCHANGED <<escVal, escXp>>
    /\ UNCHANGED passVars
    /\ UNCHANGED cacheVars

\* xpath_generator.py line 141: xpath = f"//*[@{attr_name}='{escaped}']"
XPathEmbedAttribute ==
    /\ escXp = Unset
    /\ escXp' = XPathEmbed(escVal)
    /\ UNCHANGED <<escVal, escCss>>
    /\ UNCHANGED passVars
    /\ UNCHANGED cacheVars

EscNext == CssEmbedAttribute \/ XPathEmbedAttribute

SpecEscape == EscInit /\ [][EscNext]_vars

(***************************************************************************)
(* The pass over documents of one tag: every tag name of the type table    *)
(* and two outside it, with and without a type attribute in several        *)
(* spellings, bare, with an event handler or with the required attribute.  *)
(***************************************************************************)
\* the keys of HTML_TAG_TO_ELEMENT_TYPE
HtmlTags ==
    {"button", "a", "input", "textarea", "select", "form", "img", "video",
     "audio", "table", "ul", "ol", "li", "h1", "h2", "h3", "h4", "h5", "h6",
     "p", "nav", "header", "footer", "main", "aside", "section", "article",
     "div", "span"}
TypeTags == HtmlTags \cup {"label", "custom"}
TypeValues ==
    {W_checkbox, W_Checkbox, W_radio, W_RADIO, W_file, W_submit, W_button,
     W_Submit, W_text, W_email, W_reset, W_image, W_hidden, W_range, W_color,
     W_date, W_time, W_datetime_local, W_month, <<>>}
TypeAttrs == {<<>>} \cup {<<(<<"type", v>>)>> : v \in TypeValues}
TypeTrees ==
    {[parent |-> <<0>>, node |-> <<Tag(tag, type \o handler, <<>>, <<>>)>>] :
        tag \in TypeTags, type \in TypeAttrs,
        handler \in {<<>>, <<(<<"onclick", Str_a>>)>>, <<(<<"required", <<>>>>)>>}}

TypeInit ==
    /\ source = HtmlSource(Markup, TRUE)
    /\ tree \in TypeTrees
    /\ errors = <<>>
    /\ pc = "parse"
    /\ cursor = 1
    /\ recs = <<>>
    /\ run = 1
    /\ prev = NoRun
    /\ escVal = <<>> /\ escCss = Unset /\ escXp = Unset
    /\ FreshParser

TypeNext ==
    \/ ParseHtml /\ UNCHANGED <<escVars, cacheVars>>
    \/ SkipHiddenElement /\ UNCHANGED <<escVars, cacheVars>>
    \/ SkipNonInteractive /\ UNCHANGED <<escVars, cacheVars>>
    \/ ClassifyElement /\ UNCHANGED <<escVars, cacheVars>>
    \/ BuildRelationships /\ UNCHANGED <<escVars, cacheVars>>

SpecType == TypeInit /\ [][TypeNext]_vars

(***************************************************************************)
(* The pass over deep documents: a chain of nested div tags, plain or of   *)
(* class btn, with one anchor or two equal anchors in the innermost div.   *)
(***************************************************************************)
MaxChainDepth == 12

ChainTree(d, div, leaves) ==
    [parent |-> [k \in 1..(d + leaves) |-> IF k <= d THEN k - 1 ELSE d],
     node |-> [k \in 1..(d + leaves) |->
                  IF k <= d THEN div ELSE Tag("a", <<>>, <<>>, Str_Send)]]

ChainTrees ==
    {ChainTree(d, div, leaves) :
        d \in 1..MaxChainDepth,
        div \in {Tag("div", <<>>, <<>>, <<>>), Tag("div", <<>>, <<Str_btn>>, <<>>)},
        leaves \in 1..2}

ChainInit ==
    /\ source = HtmlSource(Markup, TRUE)
    /\ tree \in ChainTrees
    /\ errors = <<>>
    /\ pc = "parse"
    /\ cursor = 1
    /\ recs = <<>>
    /\ run = 1
    /\ prev = NoRun
    /\ escVal = <<>> /\ escCss = Unset /\ escXp = Unset
    /\ FreshParser

ChainNext ==
    \/ ParseHtml /\ UNCHANGED <<escVars, cacheVars>>
    \/ SkipNonInteractive /\ UNCHANGED <<escVars, cacheVars>>
    \/ ClassifyElement /\ UNCHANGED <<escVars, cacheVars>>
    \/ BuildRelationships /\ UNCHANGED <<escVars, cacheVars>>

SpecChain == ChainInit /\ [][ChainNext]_vars

(***************************************************************************)
(* The pass over documents of one tag with an event handler, whose id,     *)
(* classes and text are drawn from words that hold a keyword of one of the *)
(* semantic rules, or none.                                                *)
(***************************************************************************)
SemIds == {<<>>, <<"Q", "u", "e", "r", "y">>, <<"u", "s", "e", "r">>, <<"n", "a", "v">>, <<"c", "a", "r", "t">>}
SemClasses == {<<>>, <<<<"F", "i", "n", "d">>>>, <<<<"a", "u", "t", "h">>, <<"x">>>>, <<<<"M", "e", "n", "u">>>>, <<<<"c", "a", "r", "t">>>>}
SemTexts == {<<>>, <<"S", "e", "a", "r", "c", "h">>, <<"S", "i", "g", "n", "-", "I", "n">>, <<"M", "e", "n", "u">>, <<"C", "a", "r", "t">>, <<"o", "k">>}
SemTrees ==
    {[parent |-> <<0>>,
      node |-> <<Tag(tag, (IF id = <<>> THEN <<>> ELSE <<(<<"id", id>>)>>)
                          \o <<(<<"onclick", Str_a>>)>>, cls, text)>>] :
        tag \in {"a", "nav", "span"}, id \in SemIds, cls \in SemClasses,
        text \in SemTexts}

SemInit ==
    /\ source = HtmlSource(Markup, TRUE)
    /\ tree \in SemTrees
    /\ errors = <<>>
    /\ pc = "parse"
    /\ cursor = 1
    /\ recs = <<>>
    /\ run = 1
    /\ prev = NoRun
    /\ escVal = <<>> /\ escCss = Unset /\ escXp = Unset
    /\ FreshParser

SemNext ==
    \/ ParseHtml /\ UNCHANGED <<escVars, cacheVars>>
    \/ ClassifyElement /\ UNCHANGED <<escVars, cacheVars>>
    \/ BuildRelationships /\ UNCHANGED <<escVars, cacheVars>>

SpecSemantic == SemInit /\ [][SemNext]_vars

(***************************************************************************)
(* The pass over documents of MaxNodes sibling anchors whose class lists   *)
(* are drawn, in order, from three meaningful class names.                 *)
(***************************************************************************)
ClassPool == <<<<"x", "a">>, <<"y", "b">>, <<"z", "c">>>>
ClassLists ==
    {SelectSeq(ClassPool, LAMBDA c : c \in chosen) : chosen \in SUBSET Range(ClassPool)}
ClassTrees ==
    {[parent |-> [k \in 1..MaxNodes |-> 0],
      node |-> [k \in 1..MaxNodes |-> Tag("a", <<>>, cls[k], <<>>)]] :
        cls \in [1..MaxNodes -> ClassLists]}

ClassInit ==
    /\ source = HtmlSource(Markup, TRUE)
    /\ tree \in ClassTrees
    /\ errors = <<>>
    /\ pc = "parse"
    /\ cursor = 1
    /\ recs = <<>>
    /\ run = 1
    /\ prev = NoRun
    /\ escVal = <<>> /\ escCss = Unset /\ escXp = Unset
    /\ FreshParser

ClassNext ==
    \/ ParseHtml /\ UNCHANGED <<escVars, cacheVars>>
    \/ ClassifyElement /\ UNCHANGED <<escVars, cacheVars>>
    \/ BuildRelationships /\ UNCHANGED <<escVars, cacheVars>>

SpecClass == ClassInit /\ [][ClassNext]_vars

(***************************************************************************)
(* C1: every record the pass emits has a non-empty locators map: it holds  *)
(* a generated CSS expression and a generated path expression.             *)
(***************************************************************************)
C1_EveryRecordHasLocators ==
    \A i \in 1..Len(recs) :
        LET locators == recs[i].locators IN
        /\ locators # <<>>
        /\ HasLocator(locators, "css_generated")
        /\ Locator(locators, "css_generated").css # NoSelector
        /\ HasLocator(locators, "xpath_generated")
        /\ Locator(locators, "xpath_generated").xpath.steps # <<>>

\* a finished pass with a record of a tag without id, name or class: the two
\* generated expressions are all that locates it
C1_Witness ==
    /\ pc = "done"
    /\ \E i \in 1..Len(recs) :
           /\ ~HasLocator(recs[i].locators, "id")
           /\ ~HasLocator(recs[i].locators, "name")
           /\ ~HasLocator(recs[i].locators, "css_class")
           /\ HasLocator(recs[i].locators, "css_generated")

(***************************************************************************)
(* C2: within one pass no two emitted records have the same element_id.    *)
(***************************************************************************)
C2_ElementIdsUnique ==
    \A i, j \in 1..Len(recs) :
        i # j => recs[i].element_id # recs[j].element_id

C4_SelectorConfirmedOrBareTag ==
    \A i \in 1..Len(recs) :
        LET n == recs[i].node
            css == Locator(recs[i].locators, "css_generated").css
        IN  \/ IsSelectorUnique(tree, css, n)
            \/ css = <<TagPart(Name(tree, n))>>

(***************************************************************************)
(* C5: every path expression generate_xpath returns resolves, in the tree  *)
(* it was generated from, to exactly one node, the origin (stated here for *)
(* the expressions an XPath engine can read at all).                       *)
(***************************************************************************)
C5_XPathResolvesToOrigin ==
    \A i \in 1..Len(recs) :
        LET result == XPathEval(tree, Locator(recs[i].locators,
                                              "xpath_generated").xpath)
        IN  result.ok => result.nodes = <<recs[i].node>>

(***************************************************************************)
(* C6: the confidence score of every record, in tenths, is                 *)
(* clamp(5 + 3*[element type in the default-interactive set]               *)
(*         + 2*[a semantic type resolved] + 1*[id or name not empty]       *)
(*         + 1*[text longer than the configured minimum]                   *)
(*         - 2*[div or span without inclusion signal], 0, 10);             *)
(* it lies in 0..10 and computing it again gives the same value.           *)
(***************************************************************************)
C6_ConfidenceFormula ==
    \A i \in 1..Len(recs) :
        LET r == recs[i]
            n == r.node
            raw == 5
                   + (IF r.element_type \in InteractiveElementTypes THEN 3 ELSE 0)
                   + (IF r.semantic_type # None THEN 2 ELSE 0)
                   + (IF Get(tree, n, "id") # <<>> \/ Get(tree, n, "name") # <<>>
                      THEN 1 ELSE 0)
                   + (IF Len(Strip(r.text_content)) > MinTextLength THEN 1 ELSE 0)
                   - (IF r.tag_name \in {"div", "span"} /\ ~IsIncluded(tree, n)
                      THEN 2 ELSE 0)
            clamped == IF raw < 0 THEN 0 ELSE IF raw > 10 THEN 10 ELSE raw
        IN  /\ r.confidence_score = clamped
            /\ r.confidence_score \in 0..10
            /\ CalculateConfidenceScore(tree, n, r.element_type, r.semantic_type)
                   = r.confidence_score

\* a record whose bonuses add up to more than the ceiling, and one below it
C6_Witness ==
    /\ \E i \in 1..Len(recs) :
           /\ recs[i].confidence_score = 10
           /\ recs[i].semantic_type # None
           /\ Len(Strip(recs[i].text_content)) > MinTextLength
           /\ HasAttr(tree, recs[i].node, "id")
    /\ \E i \in 1..Len(recs) : recs[i].confidence_score < 10

C10_LocatorValuesEscaped ==
    \A i \in 1..Len(recs) :
        \A k \in 1..Len(recs[i].locators) :
            LET entry == recs[i].locators[k] IN
            /\ \A p \in 1..Len(entry.css) : PartReadable(entry.css[p])
            /\ \A s \in 1..Len(entry.xpath.steps) :
                   entry.xpath.steps[s].lit # <<>>
                       => XPathStringValue(entry.xpath.steps[s].lit) # Malformed

(***************************************************************************)
(* C8: the path generator embeds every value as a well-formed XPath string *)
(* expression whose value is the original string.                          *)
(***************************************************************************)
C8_XPathEmbedRoundTrip ==
    escXp # Unset => XPathStringValue(escXp) = escVal

(***************************************************************************)
(* C9: the CSS attribute-equality selector [attr="e"] reads back, under    *)
(* the CSS quoted-string rules, as exactly the attribute value.            *)
(***************************************************************************)
C9_CssAttributeRoundTrip ==
    escCss # Unset => CssReadQuoted(escCss, DQ) = escVal


(***************************************************************************)
(* C17: when the source has no usable root (empty, only white space, or no *)
(* parser returns a soup with a tag), parse_page does not raise: it        *)
(* returns a result without interactive elements and with a non-empty      *)
(* errors list.                                                            *)
(***************************************************************************)
C17_NoRootGivesErrorResult ==
    (Strip(source.html) = <<>> \/ ~source.parsed) =>
        /\ pc \in {"parse", "failed"}
        /\ pc = "failed" => recs = <<>> /\ errors # <<>>

\* parse_page has returned for a source of white space only
C17_Witness ==
    /\ pc = "failed"
    /\ source.html = <<" ", " ">>
    /\ errors = <<"ValueError">>


(***************************************************************************)
(* Classified nodes and their logical relatives, as the hierarchy of a     *)
(* record is specified.                                                    *)
(***************************************************************************)
IsClassified(rs, n) == \E i \in 1..Len(rs) : rs[i].node = n
RecordOf(rs, n) == rs[CHOOSE i \in 1..Len(rs) : rs[i].node = n]

\* the nearest proper ancestor of n that has a record, NoNode without one
RECURSIVE NearestClassifiedAncestor(_, _, _)
NearestClassifiedAncestor(t, rs, n) ==
    IF Parent(t, n) \in {NoNode, 0} THEN NoNode
    ELSE IF IsClassified(rs, Parent(t, n)) THEN Parent(t, n)
    ELSE NearestClassifiedAncestor(t, rs, Parent(t, n))

(***************************************************************************)
(* C11: after relationship building the hierarchy parent of every record   *)
(* is the element_id of the nearest classified ancestor of its node, and   *)
(* none exactly when the node has no classified ancestor.                  *)
(***************************************************************************)
C11_ParentIsNearestClassifiedAncestor ==
    pc = "done" =>
        \A i \in 1..Len(recs) :
            LET a == NearestClassifiedAncestor(tree, recs, recs[i].node)
            IN  recs[i].hierarchy.parent =
                    IF a = NoNode THEN NoParent ELSE RecordOf(recs, a).element_id


(***************************************************************************)
(* C12: after relationship building the hierarchy depth of every emitted   *)
(* record, with or without id or name, is the number of ancestors of its   *)
(* node up to the root of the tree.                                        *)
(***************************************************************************)
C12_DepthCountsAncestors ==
    pc = "done" =>
        \A i \in 1..Len(recs) :
            recs[i].hierarchy.depth = Depth(tree, recs[i].node)


\* the element ids of the classified nodes whose nearest classified ancestor
\* is n: the first classified descendant on each downward branch from n
FirstClassifiedBelow(t, rs, n) ==
    {RecordOf(rs, d).element_id :
        d \in {d \in 1..Size(t) : /\ IsClassified(rs, d)
                                  /\ NearestClassifiedAncestor(t, rs, d) = n}}

(***************************************************************************)
(* C13: after relationship building the children of every record are       *)
(* exactly the first classified descendants met on each downward branch    *)
(* from its node; a classified node below another classified descendant    *)
(* is not among them.                                                      *)
(***************************************************************************)
C13_ChildrenAreFirstClassifiedDescendants ==
    pc = "done" =>
        \A i \in 1..Len(recs) :
            {recs[i].hierarchy.children[k] :
                k \in 1..Len(recs[i].hierarchy.children)}
                = FirstClassifiedBelow(tree, recs, recs[i].node)


\* the inclusion test in the words of its specification
InteractiveByDefault(t, n) == GetElementType(t, n) \in InteractiveElementTypes
CarriesAllowListSignal(t, n) ==
    \/ \E a \in InteractiveAttributes : HasAttr(t, n, a)
    \/ \E i \in 1..Len(Classes(t, n)) :
           \E j \in 1..Len(InteractiveClassPatterns) :
               Contains(Lower(Classes(t, n)[i]), InteractiveClassPatterns[j])

C15_ElementTypeFromTagAndInputType ==
    \A i \in 1..Len(recs) :
        LET tag == Name(tree, recs[i].node)
            input_type == Lower(GetOr(tree, recs[i].node, "type", W_text))
        IN  /\ tag \notin HtmlTags => recs[i].element_type = "UNKNOWN"
            /\ tag \in HtmlTags \ {"input"} =>
                   recs[i].element_type = TagToElementType(tag)
            /\ tag = "input" =>
                   /\ recs[i].element_type =
                          CASE input_type = W_checkbox -> "CHECKBOX"
                            [] input_type = W_radio -> "RADIO"
                            [] input_type = W_file -> "FILE_INPUT"
                            [] input_type \in {W_submit, W_button} -> "SUBMIT"
                            [] OTHER -> "INPUT"
                   /\ recs[i].form_field_type = InputTypeToFormFieldType(input_type)

\* a returned record of <input type="Checkbox">: CHECKBOX twice
C15_Witness ==
    /\ pc = "done"
    /\ \E i \in 1..Len(recs) :
           /\ recs[i].tag_name = "input"
           /\ GetOr(tree, recs[i].node, "type", W_text) = W_Checkbox
           /\ recs[i].element_type = "CHECKBOX"
           /\ recs[i].form_field_type = "CHECKBOX"


(***************************************************************************)
(* C16: a failure while one node is classified does not end the pass: when *)
(* the pass over a parsed document has ended, it has returned the record   *)
(* of every node that is to be included and whose own classification does  *)
(* not fail.                                                               *)
(***************************************************************************)
C16_NodeFailureDoesNotAbortPass ==
    (pc \in {"done", "failed"} /\ ParseHtmlRaises(source) = None) =>
        \A n \in 1..Size(tree) :
            (/\ ~IsHiddenElement(tree, n)
             /\ IsIncluded(tree, n)
             /\ ~GenerateSelector(tree, n).raised) => IsClassified(recs, n)


(***************************************************************************)
(* C18: no failure of an oracle query leaves generate_selector: for the    *)
(* tag the pass is about to classify the generator returns an expression,  *)
(* whichever query fails on the way, those of the ancestor-chain parts     *)
(* included.                                                               *)
(***************************************************************************)
C18_OracleFailureCaughtPerCandidate ==
    (AtElement /\ ~IsHiddenElement(tree, cursor) /\ IsIncluded(tree, cursor)) =>
        /\ ~GenerateSelector(tree, cursor).raised
        /\ GenerateSelector(tree, cursor).sel # NoSelector


\* the longest chain the loops may build for node n: one component for n and
\* one for each of its ancestors, the document included, up to max_depth
LongestChain(t, n, max_depth) ==
    IF Depth(t, n) + 1 < max_depth THEN Depth(t, n) + 1 ELSE max_depth

(***************************************************************************)
(* C19: for the node of every record, at whatever depth, the ancestor      *)
(* chain either generator builds has at most max_depth components, and a   *)
(* chain shorter than the longest allowed one is returned only when it     *)
(* resolves to the node alone.                                             *)
(***************************************************************************)
C19_ChainBoundedAndLongestUnlessUnique ==
    \A i \in 1..Len(recs) :
        LET n == recs[i].node
            css == GenerateHierarchicalSelector(tree, n)
            xpath == GenerateHierarchicalXPath(tree, n)
        IN  /\ ~css.raised
            /\ Len(css.sel) <= CssMaxDepth
            /\ Len(css.sel) < LongestChain(tree, n, CssMaxDepth) =>
                   Select(tree, css.sel) = [ok |-> TRUE, nodes |-> <<n>>]
            /\ Len(xpath.steps) <= XPathMaxDepth
            /\ Len(xpath.steps) < LongestChain(tree, n, XPathMaxDepth) =>
                   XPathEval(tree, xpath) = [ok |-> TRUE, nodes |-> <<n>>]


\* no id, attribute or class candidate, and an ancestor chain that does not
\* resolve to the node alone
NotSingledOut(t, n) ==
    /\ GenerateIdSelector(t, n) = NoSelector
    /\ GenerateUniqueAttributeSelector(t, n) = NoSelector
    /\ GenerateClassSelector(t, n) = NoSelector
    /\ ~GenerateHierarchicalSelector(t, n).raised
    /\ ~IsSelectorUnique(t, GenerateHierarchicalSelector(t, n).sel, n)

(***************************************************************************)
(* C20: the generated CSS expression of a record whose node no id,         *)
(* attribute, class or ancestor chain singles out ends in the 1-based      *)
(* position of the node among its same-tag siblings, and it resolves to    *)
(* the node and to no other.                                               *)
(***************************************************************************)
C20_PositionFallbackResolves ==
    \A i \in 1..Len(recs) :
        LET n == recs[i].node
            css == Locator(recs[i].locators, "css_generated").css
            siblings == SelectSeq(Children(tree, Parent(tree, n)),
                                  LAMBDA k : Name(tree, k) = Name(tree, n))
        IN  NotSingledOut(tree, n) =>
                /\ css[Len(css)].pseudo \in {"nth-of-type", "nth-child"}
                /\ \E k \in 1..Len(siblings) :
                       siblings[k] = n /\ css[Len(css)].arg = Decimal(k)
                /\ Select(tree, css) = [ok |-> TRUE, nodes |-> <<n>>]


\* a keyword of the list is a substring of the lower-cased word
Mentions(word, keywords) ==
    \E k \in 1..Len(keywords) : Contains(Lower(word), keywords[k])
IdMentions(t, n, keywords) == Mentions(Get(t, n, "id"), keywords)
ClassMentions(t, n, keywords) ==
    \E c \in 1..Len(Classes(t, n)) : Mentions(Classes(t, n)[c], keywords)
TextMentions(t, n, keywords) == Mentions(ExtractTextContent(t, n), keywords)
AnywhereMentions(t, n, keywords) ==
    IdMentions(t, n, keywords) \/ ClassMentions(t, n, keywords)
        \/ TextMentions(t, n, keywords)
\* the type of the first entry of the keyword table that hits, None without
FirstTableHit(hit(_)) ==
    IF \E i \in 1..Len(SemanticPatterns) : hit(SemanticPatterns[i].patterns)
    THEN SemanticPatterns[CHOOSE i \in 1..Len(SemanticPatterns) :
             /\ hit(SemanticPatterns[i].patterns)
             /\ \A j \in 1..(i - 1) : ~hit(SemanticPatterns[j].patterns)].type
    ELSE None

(***************************************************************************)
(* C21: the semantic type of a record is decided by the first rule that    *)
(* matches, in the order search keywords, login keywords, nav tag or nav   *)
(* keywords, keyword table; the search and login rules look for their      *)
(* keywords, case-insensitively, in the id, the class tokens and the text, *)
(* the nav rule in the id and the class tokens only, the keyword table in  *)
(* the text only; without a match the semantic type is None.               *)
(***************************************************************************)
C21_SemanticTypeFirstMatch ==
    \A i \in 1..Len(recs) :
        LET n == recs[i].node
            InText(keywords) == TextMentions(tree, n, keywords)
        IN  recs[i].semantic_type =
                IF AnywhereMentions(tree, n, SearchIndicators) THEN "SEARCH_FORM"
                ELSE IF AnywhereMentions(tree, n, LoginIndicators) THEN "LOGIN_FORM"
                ELSE IF \/ Name(tree, n) = "nav"
                        \/ IdMentions(tree, n, NavIndicators)
                        \/ ClassMentions(tree, n, NavIndicators)
                THEN "PRIMARY_NAV"
                ELSE FirstTableHit(InText)

\* a returned record whose text alone holds a nav keyword and whose class
\* alone holds a table keyword: neither rule matches
C21_Witness ==
    /\ pc = "done"
    /\ \E i \in 1..Len(recs) :
           /\ TextMentions(tree, recs[i].node, NavIndicators)
           /\ ClassMentions(tree, recs[i].node, SemanticPatterns[6].patterns)
           /\ recs[i].semantic_type = None

\* C21 as stated: every rule looks in the id, the class tokens and the text
C21_EveryRuleReadsEveryField ==
    \A i \in 1..Len(recs) :
        LET n == recs[i].node
            Anywhere(keywords) == AnywhereMentions(tree, n, keywords)
        IN  recs[i].semantic_type =
                IF Anywhere(SearchIndicators) THEN "SEARCH_FORM"
                ELSE IF Anywhere(LoginIndicators) THEN "LOGIN_FORM"
                ELSE IF Name(tree, n) = "nav" \/ Anywhere(NavIndicators)
                THEN "PRIMARY_NAV"
                ELSE FirstTableHit(Anywhere)


Carries(rec, interaction) ==
    \E k \in 1..Len(rec.interaction_types) : rec.interaction_types[k] = interaction

(***************************************************************************)
(* C22: the interaction types of every record hold each override that      *)
(* applies to its node: UPLOAD for type file, RANGE_SELECT for type range, *)
(* COLOR_PICK for type color, DATE_PICK for the types date, time and       *)
(* datetime-local, NAVIGATE for an anchor with an href, SUBMIT for a form  *)
(* and for a record of ElementType SUBMIT; a button carries CLICK and a    *)
(* checkbox SELECT.                                                        *)
(***************************************************************************)
C22_InteractionOverridesApply ==
    \A i \in 1..Len(recs) :
        LET n == recs[i].node
            type == Lower(Get(tree, n, "type"))
        IN  /\ type = W_file => Carries(recs[i], "UPLOAD")
            /\ type = W_range => Carries(recs[i], "RANGE_SELECT")
            /\ type = W_color => Carries(recs[i], "COLOR_PICK")
            /\ type \in {W_date, W_time, W_datetime_local} =>
                   Carries(recs[i], "DATE_PICK")
            /\ (Name(tree, n) = "a" /\ Get(tree, n, "href") # <<>>) =>
                   Carries(recs[i], "NAVIGATE")
            /\ (Name(tree, n) = "form" \/ recs[i].element_type = "SUBMIT") =>
                   Carries(recs[i], "SUBMIT")
            /\ recs[i].element_type = "BUTTON" => Carries(recs[i], "CLICK")
            /\ recs[i].element_type = "CHECKBOX" => Carries(recs[i], "SELECT")


\* the tree with attribute name taken off node n
WithoutAttr(t, n, name) ==
    [t EXCEPT !.node[n].attrs = SelectSeq(@, LAMBDA kv : kv[1] # name)]

(***************************************************************************)
(* C23: the confidence score of the record of a checkbox input that        *)
(* carries the required attribute differs from the score computed for the  *)
(* same node without the attribute.                                        *)
(***************************************************************************)
C23_ConfidenceReflectsRequired ==
    \A i \in 1..Len(recs) :
        LET n == recs[i].node
            plain == WithoutAttr(tree, n, "required")
        IN  (/\ recs[i].element_type = "CHECKBOX"
             /\ HasAttr(tree, n, "required")) =>
                recs[i].confidence_score #
                    CalculateConfidenceScore(plain, n, GetElementType(plain, n),
                        DetermineSemanticType(plain, n, ExtractTextContent(plain, n)))


(***************************************************************************)
(* C24: after relationship building two records whose nodes have the same  *)
(* parent each list the element_id of the other among their siblings.      *)
(***************************************************************************)
C24_SiblingsShareParent ==
    pc = "done" =>
        \A i, j \in 1..Len(recs) :
            (i # j /\ Parent(tree, recs[i].node) = Parent(tree, recs[j].node)) =>
                \E k \in 1..Len(recs[i].hierarchy.siblings) :
                    recs[i].hierarchy.siblings[k] = recs[j].element_id


\* the combinations of a class list of at most three classes: singles, then
\* pairs, then the triple, each size in original class order
ClassCombinations(classes) ==
    [i \in 1..Len(classes) |-> <<classes[i]>>]
    \o (IF Len(classes) = 2 THEN <<classes>>
        ELSE IF Len(classes) = 3
        THEN << <<classes[1], classes[2]>>, <<classes[1], classes[3]>>,
                <<classes[2], classes[3]>>, classes >>
        ELSE <<>>)

(***************************************************************************)
(* C25: when some combination of the meaningful classes of a node is       *)
(* unique, the generated CSS expression of its record is the first unique  *)
(* one in the order single classes, pairs, triples, each in original class *)
(* order: a unique pair is returned before the triple.                     *)
(***************************************************************************)
C25_FirstUniqueClassCombination ==
    \A i \in 1..Len(recs) :
        LET n == recs[i].node
            combinations == ClassCombinations(MeaningfulClasses(tree, n))
            expected == FirstUnique(tree, n,
                [k \in 1..Len(combinations) |->
                    <<ClassPart("", [c \in 1..Len(combinations[k]) |->
                                        EscapeCssIdentifier(combinations[k][c])])>>])
        IN  expected # NoSelector =>
                /\ GenerateClassSelector(tree, n) = expected
                /\ Locator(recs[i].locators, "css_generated").css = expected


(***************************************************************************)
(* C26: the generated path expression of a record is never one of the      *)
(* too-generic expressions //*, //div and //span.                          *)
(***************************************************************************)
C26_XPathNeverTooGeneric ==
    \A i \in 1..Len(recs) :
        LET xpath == Locator(recs[i].locators, "xpath_generated").xpath
        IN  /\ xpath # XPath("//", <<PlainStep("*")>>)
            /\ xpath # XPath("//", <<PlainStep("div")>>)
            /\ xpath # XPath("//", <<PlainStep("span")>>)

\* a returned record of a div without id, attribute and text: neither the
\* attribute nor the text strategy gives a path, and //div is its fallback
C26_Witness ==
    /\ pc = "done"
    /\ \E i \in 1..Len(recs) :
           /\ recs[i].tag_name = "div"
           /\ GenerateIdXPath(tree, recs[i].node) = NoXPath
           /\ GenerateUniqueAttributeXPath(tree, recs[i].node) = NoXPath
           /\ GenerateTextXPath(tree, recs[i].node) = NoXPath
           /\ IsXPathTooGeneric(GenerateFallbackXPath(tree, recs[i].node))
           /\ Len(Locator(recs[i].locators, "xpath_generated").xpath.steps) > 1


(***************************************************************************)
(* DOMParser with caching enabled: parse_page, get_last_analysis and       *)
(* clear_cache over a few pages.  A DOMAnalysisResult is known by the      *)
(* order in which the parser built it (serial; an error result carries 0). *)
(***************************************************************************)
\* config['max_cache_size']
MaxCacheSize == 2
\* calls made on one DOMParser
MaxCalls == 4

CacheUrls == {"u1", "u2"}
CacheSources ==
    {HtmlSource(Markup, TRUE), HtmlSource(<<"<", "<">>, TRUE),
     HtmlSource(<<" ">>, FALSE)}

\* _generate_cache_key: a digest of the url, the length and the hash of the
\* text (no two texts of CacheSources share a hash)
GenerateCacheKey(html_source, url) ==
    <<url, Len(html_source.html), html_source.html>>

CacheKeys(cache) == {cache[i].key : i \in 1..Len(cache)}
CachedResult(cache, cache_key) ==
    LET i == CHOOSE j \in 1..Len(cache) : cache[j].key = cache_key
    IN  cache[i].result

\* _cache_result with the eviction left out
CacheResultKeepAll(cache, cache_key, result) ==
    Append(cache, [key |-> cache_key, result |-> result])

\* _cache_result: at max_size entries the first key of the dict goes, then
\* the new entry is stored
CacheResult(cache, cache_key, result) ==
    LET kept == IF Len(cache) >= MaxCacheSize THEN Tail(cache) ELSE cache
    IN  Append(kept, [key |-> cache_key, result |-> result])

CacheInit ==
    /\ FreshParser
    /\ source = HtmlSource(<<>>, FALSE) /\ errors = <<>>
    /\ tree = None /\ pc = "idle" /\ cursor = 0
    /\ recs = <<>> /\ run = 0 /\ prev = NoRun
    /\ escVal = <<>> /\ escCss = Unset /\ escXp = Unset

\* parse_page, lines 100-103: the key is cached and its result is returned
ParsePageCached ==
    \E url \in CacheUrls, html_source \in CacheSources :
        LET cache_key == GenerateCacheKey(html_source, url) IN
        /\ calls < MaxCalls
        /\ cache_key \in CacheKeys(analysis_cache)
        /\ returned' = CachedResult(analysis_cache, cache_key)
        /\ calls' = calls + 1
        /\ UNCHANGED <<analysis_cache, last_analysis>>
        /\ UNCHANGED <<passVars, escVars>>

\* parse_page, lines 105-165: the page is analysed, the result is cached,
\* kept as the last analysis and returned
ParsePageAnalyzed ==
    \E url \in CacheUrls, html_source \in CacheSources :
        LET cache_key == GenerateCacheKey(html_source, url)
            analysis_result ==
                [url |-> url, serial |-> last_analysis.serial + 1,
                 errors |-> <<>>]
        IN
        /\ calls < MaxCalls
        /\ cache_key \notin CacheKeys(analysis_cache)
        /\ ParseHtmlRaises(html_source) = None
        /\ analysis_cache' = CacheResult(analysis_cache, cache_key, analysis_result)
        /\ last_analysis' = analysis_result
        /\ returned' = analysis_result
        /\ calls' = calls + 1
        /\ UNCHANGED <<passVars, escVars>>

\* parse_page, lines 167-176: the analysis raises and an error result is
\* returned
ParsePageFailed ==
    \E url \in CacheUrls, html_source \in CacheSources :
        LET cache_key == GenerateCacheKey(html_source, url) IN
        /\ calls < MaxCalls
        /\ cache_key \notin CacheKeys(analysis_cache)
        /\ ParseHtmlRaises(html_source) # None
        /\ CaughtByParsePage(ParseHtmlRaises(html_source))
        /\ returned' = [url |-> url, serial |-> 0,
                        errors |-> <<ParseHtmlRaises(html_source)>>]
        /\ calls' = calls + 1
        /\ UNCHANGED <<analysis_cache, last_analysis>>
        /\ UNCHANGED <<passVars, escVars>>

\* clear_cache
ClearCache ==
    /\ calls < MaxCalls
    /\ analysis_cache' = <<>>
    /\ calls' = calls + 1
    /\ UNCHANGED <<last_analysis, returned>>
    /\ UNCHANGED <<passVars, escVars>>

\* get_last_analysis
GetLastAnalysis == last_analysis

CacheNext ==
    \/ ParsePageCached
    \/ ParsePageAnalyzed
    \/ ParsePageFailed
    \/ ClearCache

SpecCache == CacheInit /\ [][CacheNext]_vars

(***************************************************************************)
(* C27: with caching enabled, after each parse_page call that returned a   *)
(* result without errors, get_last_analysis() returns the result that call *)
(* returned.                                                               *)
(***************************************************************************)
C27_LastAnalysisIsReturnedResult ==
    (returned # NoResult /\ returned.errors = <<>>) =>
        GetLastAnalysis = returned

(***************************************************************************)
(* C30: with caching enabled and max_cache_size >= 1, after any sequence   *)
(* of parse_page and clear_cache calls the cache holds at most             *)
(* max_cache_size entries, and an insertion into a full cache evicts       *)
(* exactly the earliest-inserted entry still cached.                       *)
(***************************************************************************)
CachedSerials(cache) == {cache[i].result.serial : i \in 1..Len(cache)}
EarliestInserted(cache) ==
    CHOOSE s \in CachedSerials(cache) : \A o \in CachedSerials(cache) : s <= o
Inserted == CachedSerials(analysis_cache') \ CachedSerials(analysis_cache)
Evicted == CachedSerials(analysis_cache) \ CachedSerials(analysis_cache')
C30_CacheBoundedOldestEvicted ==
    /\ [](Len(analysis_cache) <= MaxCacheSize)
    /\ [][(Len(analysis_cache) >= MaxCacheSize /\ Inserted # {}) =>
              Evicted = {EarliestInserted(analysis_cache)}]_vars
\* a parser whose every call so far analysed a new page, one more than the
\* cache holds: the first result is gone and the cache is full
C30_Witness ==
    /\ calls = MaxCacheSize + 1
    /\ last_analysis.serial = calls
    /\ Len(analysis_cache) = MaxCacheSize
    /\ CachedSerials(analysis_cache) = 2..calls


(***************************************************************************)
(* C28: in relationship building every record that is associated with a    *)
(* node of the tree is associated with the node it was created from, also  *)
(* in trees where several classified nodes carry the same name or id.      *)
(***************************************************************************)
C28_RecordsAssociatedWithOwnNode ==
    (pc = "done" /\ errors = <<>>) =>
        LET element_map == ElementMap(tree, recs, Len(recs)) IN
        \A k \in 1..Len(element_map) :
            element_map[k].dom = recs[element_map[k].rec].node


(***************************************************************************)
(* C29: every emitted record has a confidence score of at least 0.5 (5     *)
(* tenths): the 0.2 penalty for a div or span without interactive          *)
(* attributes never applies to an emitted record.                          *)
(***************************************************************************)
PenaltyApplies(t, n) ==
    Name(t, n) \in {"div", "span"} /\ ~HasInteractiveAttributes(t, n)
C29_ConfidenceAtLeastBase ==
    \A i \in 1..Len(recs) :
        /\ recs[i].confidence_score >= BaseScore
        /\ ~PenaltyApplies(tree, recs[i].node)
\* the record of a div or span that earns no bonus
C29_Witness ==
    \E i \in 1..Len(recs) :
        /\ recs[i].tag_name \in {"div", "span"}
        /\ recs[i].confidence_score = BaseScore

====
